------------------------------ MODULE MediaLinks ------------------------------
(***************************************************************************)
(* The download links of get_media (tools.py): object_storage.py uploads   *)
(* the file under a name of its own, signs a link to it, and leaves a task *)
(* behind that deletes the object when the link has expired.               *)
(*                                                                         *)
(* Put and delete run in threads, each is a step.  Time passes in ticks.   *)
(***************************************************************************)
EXTENDS Naturals

CONSTANTS
    Objects,      \* object names, all distinct (bound: how many are uploaded)
    LinkTTL,      \* _LINK_TTL_SECONDS, in ticks
    MaxMishaps    \* bound: how many calls fail

ASSUME LinksAssumption == LinkTTL \in Nat \ {0} /\ MaxMishaps \in Nat

VARIABLES
    object,  \* what has become of each upload
    mishaps  \* how many failures are left

mediaVars == <<object, mishaps>>

-----------------------------------------------------------------------------

\* `at` is where the call that uploads is, `stored` whether the bucket has the
\* object, `link` the time the link still works, `task` the delete-after-TTL
\* task and `sleep` its time left; `stray` is history: the code has given up
\* on deleting this object.
Unused == [at |-> "none", stored |-> FALSE, link |-> 0, task |-> "none", sleep |-> 0,
           stray |-> FALSE]

Mishap == mishaps > 0 /\ mishaps' = mishaps - 1

\* get_media asks for a link.
Upload(o) ==
    /\ object[o] = Unused
    /\ object' = [object EXCEPT ![o].at = "put"]
    /\ UNCHANGED mishaps

\* put_object: done; failed, done or not; or cancelled along with the call,
\* while its thread goes on.
Put(o) ==
    /\ object[o].at = "put"
    /\ \/ /\ object' = [object EXCEPT ![o].at = "sign", ![o].stored = TRUE]
          /\ UNCHANGED mishaps
       \/ /\ Mishap
          /\ \E done \in BOOLEAN :
                object' = [object EXCEPT ![o].at = "failed", ![o].stored = done,
                                         ![o].stray = done]

\* Mutant: the task is created and nothing keeps it.
SignAndForget(o) ==
    /\ object[o].at = "sign"
    /\ object' = [object EXCEPT ![o].at = "linked", ![o].link = LinkTTL]
    /\ UNCHANGED mishaps

\* generate_presigned_url and create_task, nothing in between.
Sign(o) ==
    /\ object[o].at = "sign"
    /\ \/ /\ object' = [object EXCEPT ![o].at = "linked", ![o].link = LinkTTL,
                                      ![o].task = "created"]
          /\ UNCHANGED mishaps
       \/ Mishap /\ object' = [object EXCEPT ![o].at = "failed", ![o].stray = TRUE]

\* Mutant: the task sleeps a tick less than the link lives.
SleepShort(o) ==
    /\ object[o].task = "created"
    /\ object' = [object EXCEPT ![o].task = "sleeping", ![o].sleep = LinkTTL - 1]
    /\ UNCHANGED mishaps

\* _delete_after_ttl starts when the event loop comes to it, sleeps, and then
\* deletes; a failure is only logged.
Sleep(o) ==
    /\ object[o].task = "created"
    /\ object' = [object EXCEPT ![o].task = "sleeping", ![o].sleep = LinkTTL]
    /\ UNCHANGED mishaps

Delete(o) ==
    /\ object[o].task = "sleeping" /\ object[o].sleep = 0
    /\ \/ /\ object' = [object EXCEPT ![o].task = "done", ![o].stored = FALSE]
          /\ UNCHANGED mishaps
       \/ /\ Mishap
          /\ \E done \in BOOLEAN :
                object' = [object EXCEPT ![o].task = "done", ![o].stored = ~done,
                                         ![o].stray = ~done]

\* The process ends: its calls and its tasks with it.  A put may have been done.
Interrupted(x) ==
    IF x.at = "put"
    THEN {[x EXCEPT !.at = "failed", !.stored = done, !.stray = done] : done \in BOOLEAN}
    ELSE {[x EXCEPT !.at = IF @ = "sign" THEN "failed" ELSE @,
                    !.task = IF @ = "none" THEN @ ELSE "done",
                    !.sleep = 0, !.stray = x.stored]}

Interrupt ==
    /\ object' \in {f \in [Objects -> UNION {Interrupted(object[o]) : o \in Objects}] :
                      \A o \in Objects : f[o] \in Interrupted(object[o])}
    /\ UNCHANGED mishaps

Less(n) == IF n = 0 THEN 0 ELSE n - 1

Tick ==
    /\ \E o \in Objects : object[o].link > 0 \/ object[o].sleep > 0
    /\ object' = [o \in Objects |-> [object[o] EXCEPT !.link = Less(@), !.sleep = Less(@)]]
    /\ UNCHANGED mishaps

LinkStep(o) == Put(o) \/ Sign(o) \/ Sleep(o) \/ Delete(o)

MediaInit ==
    /\ object = [o \in Objects |-> Unused]
    /\ mishaps = MaxMishaps

MediaNext ==
    \/ \E o \in Objects : Upload(o) \/ LinkStep(o)
    \/ Tick
    \/ Interrupt

MediaSpec == MediaInit /\ [][MediaNext]_mediaVars

-----------------------------------------------------------------------------
(* Properties.                                                             *)

MediaTypeOK ==
    /\ object \in [Objects -> [at : {"none", "put", "sign", "linked", "failed"},
                               stored : BOOLEAN, link : 0..LinkTTL,
                               task : {"none", "created", "sleeping", "done"},
                               sleep : 0..LinkTTL, stray : BOOLEAN]]
    /\ mishaps \in 0..MaxMishaps

\* "A presigned GET URL, valid 15 minutes" (object_storage.py): the object is
\* there for as long as its link says so, though two timers run side by side.
LinkGoodUntilExpiry == \A o \in Objects : object[o].link > 0 => object[o].stored

\* "Nothing outlives the one link anyone was ever given": every object that is
\* stored gets deleted, unless a call failed or was cancelled, or the process
\* ended, while it was the code's to delete.
NothingOutlivesItsLink ==
    \A o \in Objects : object[o].stored ~> ~object[o].stored \/ object[o].stray

=============================================================================
