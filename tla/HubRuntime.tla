----------------------------- MODULE HubRuntime ------------------------------
(***************************************************************************)
(* The generation of the configuration the Hub's core runs                 *)
(* (backend/core.py apply, command, flush) and the requests that write a   *)
(* part of the store, apply it and undo what they wrote when the apply     *)
(* fails: the Traffic Matrix and the choice of a WARP endpoint             *)
(* (backend/server.py _matrix_write, traffic_matrix_warp_endpoint).        *)
(*                                                                         *)
(* An apply holds the engine's lock.  The sections are saved under it; the *)
(* matrix and the WARP profiles are not, so they change during an apply.   *)
(* An apply is two steps, up to the point where the new generation is on   *)
(* disk and the old core is stopped, and the start of the new one: the     *)
(* panel can be killed between them, and its children die with it.         *)
(***************************************************************************)
EXTENDS Naturals

CONSTANTS
    Handlers,       \* request threads of the panel
    Endpoints,      \* WARP endpoints, positive numbers; 0 is "no profile"
    MaxHubRequests, \* bound: requests of the owner
    HubFaults       \* bound: failed starts, failed reads of the counters, crashes

VARIABLES
    saved,     \* the store: [row, profile, pending, text]
    disk,      \* active.json: a generation, or None
    proc,      \* the generation the core runs, or None
    applied,   \* the generation of applied_hash, or None
    wants,     \* wants_running
    eng,       \* the apply that holds the lock: [by, cfg, old, oldhash, was], or Idle
    req,       \* handler -> [op, at, arg, old, pending, alone, ran]
    hubRequests,
    hubFaults

runtimeVars == <<saved, disk, proc, applied, wants, eng, req, hubRequests, hubFaults>>

Policies == {"none", "normal", "warp"}
Texts == {"plain", "other", "rejected"}   \* the sections: two the core accepts, one it refuses
Generations == [row : Policies, profile : {0} \union Endpoints, text : Texts]
NoGen == [row |-> "none", profile |-> 0, text |-> "none"]
Free == [by |-> "none", cfg |-> NoGen, old |-> NoGen, oldhash |-> NoGen, was |-> FALSE]
Nobody == [op |-> "none", at |-> "none", policy |-> "none", profile |-> 0, pending |-> FALSE,
           old |-> "none", oldProfile |-> 0, alone |-> FALSE, ran |-> NoGen]
Running == proc # NoGen
Compiled == [row |-> saved.row, profile |-> saved.profile, text |-> saved.text]

RuntimeInit ==
    /\ saved = [row |-> "none", profile |-> 0, pending |-> FALSE, text |-> "plain"]
    /\ disk = NoGen /\ proc = NoGen /\ applied = NoGen /\ wants \in BOOLEAN     \* core_autostart
    /\ eng = Free /\ req = [h \in Handlers |-> Nobody]
    /\ hubRequests = 0 /\ hubFaults = 0

Ask == hubRequests < MaxHubRequests /\ hubRequests' = hubRequests + 1
Fault == hubFaults < HubFaults /\ hubFaults' = hubFaults + 1
\* Another handler's write of the matrix or of the profile ends "alone".
Overlapped(h) == [g \in Handlers |-> IF g = h THEN req[g] ELSE [req[g] EXCEPT !.alone = FALSE]]

-----------------------------------------------------------------------------
(* CoreEngine.apply, for the flush of a reconciliation pass, for an owner's*)
(* start or restart, and for a handler.                                    *)

\* The candidate is what the core runs already, or it is refused: an invalid
\* text always, any candidate when the test or the counters cannot be read.
Unneeded(force) == ~force /\ Running /\ Compiled = applied
Refused == saved.text = "rejected"

\* The old core is stopped and the candidate written as active.json.
Replace(by) ==
    /\ eng' = [by |-> by, cfg |-> Compiled, old |-> disk, oldhash |-> applied, was |-> Running]
    /\ disk' = Compiled /\ proc' = NoGen

\* The candidate starts; or it does not, the previous generation is written
\* back and, when it ran, started again.
Started == proc' = eng.cfg /\ applied' = eng.cfg /\ wants' = TRUE /\ UNCHANGED <<disk, hubFaults>>
Restored ==
    /\ disk' = IF eng.old # NoGen THEN eng.old ELSE eng.cfg
    /\ \/ /\ Fault
          /\ proc' = IF eng.was THEN eng.old ELSE NoGen
          /\ applied' = IF eng.was THEN eng.oldhash ELSE NoGen
       \/ /\ hubFaults + 2 <= HubFaults /\ hubFaults' = hubFaults + 2
          /\ eng.was /\ proc' = NoGen /\ applied' = NoGen
    /\ UNCHANGED wants

\* flush: nothing when no core is wanted.  Its errors are only recorded.
Flush ==
    /\ eng = Free /\ wants /\ ~Unneeded(FALSE) /\ ~Refused
    /\ Replace("pass")
    /\ UNCHANGED <<saved, applied, wants, req, hubRequests, hubFaults>>
Command(force) ==
    /\ Ask /\ eng = Free /\ ~Unneeded(force) /\ ~Refused
    /\ Replace("owner")
    /\ UNCHANGED <<saved, applied, wants, req, hubFaults>>
FinishApply ==
    /\ eng.by \in {"pass", "owner"} /\ eng' = Free
    /\ (Started \/ Restored)
    /\ UNCHANGED <<saved, req, hubRequests>>
Stop ==
    /\ Ask /\ eng = Free
    /\ wants' = FALSE /\ proc' = NoGen /\ applied' = NoGen
    /\ UNCHANGED <<saved, disk, eng, req, hubFaults>>

\* save_section holds the engine's lock; the pass that follows is Flush.
PutSetting(text) ==
    /\ Ask /\ eng = Free /\ text # saved.text
    /\ saved' = [saved EXCEPT !.text = text]
    /\ UNCHANGED <<disk, proc, applied, wants, eng, req, hubFaults>>

\* The core dies; or the panel with its core and its requests, and core_autostart
\* says whether a start follows.
CoreCrash ==
    /\ Fault /\ Running /\ eng = Free /\ proc' = NoGen
    /\ UNCHANGED <<saved, disk, applied, wants, eng, req, hubRequests>>
PanelKilled ==
    /\ Fault
    /\ proc' = NoGen /\ applied' = NoGen /\ eng' = Free /\ wants' \in BOOLEAN
    /\ req' = [h \in Handlers |-> Nobody]
    /\ UNCHANGED <<saved, disk, hubRequests>>

-----------------------------------------------------------------------------
(* A request that writes, applies, and undoes.                             *)

\* _matrix_write: a WARP policy needs a profile, which is probed.
SetPolicy(h, policy) ==
    /\ Ask /\ req[h] = Nobody /\ policy # "none" /\ (policy = "warp" => saved.profile # 0)
    /\ req' = [req EXCEPT ![h] = [Nobody EXCEPT !.op = "matrix", !.at = "read", !.policy = policy,
                                               !.old = saved.row, !.alone = TRUE]]
    /\ UNCHANGED <<saved, disk, proc, applied, wants, eng, hubFaults>>

\* warp/create stages a registration; warp/endpoint makes it, or the present
\* profile with another endpoint, the active one.
Register ==
    /\ Ask /\ ~saved.pending /\ saved' = [saved EXCEPT !.pending = TRUE]
    /\ UNCHANGED <<disk, proc, applied, wants, eng, req, hubFaults>>
SelectEndpoint(h, e) ==
    /\ Ask /\ req[h] = Nobody /\ (saved.pending \/ saved.profile # 0)
    /\ req' = [req EXCEPT ![h] = [Nobody EXCEPT !.op = "warp", !.at = "read", !.profile = e,
                  !.oldProfile = saved.profile, !.pending = saved.pending, !.alone = TRUE]]
    /\ UNCHANGED <<saved, disk, proc, applied, wants, eng, hubFaults>>

Write(h) ==
    /\ req[h].at = "read"
    /\ saved' = IF req[h].op = "matrix" THEN [saved EXCEPT !.row = req[h].policy]
                                        ELSE [saved EXCEPT !.profile = req[h].profile]
    /\ req' = [Overlapped(h) EXCEPT ![h].at = "written"]
    /\ UNCHANGED <<disk, proc, applied, wants, eng, hubRequests, hubFaults>>

\* apply(start=True), the first time for the new value, the second, whose
\* errors are ignored, for the old one.
Applies(h, from, during, ok, failed) ==
    /\ req[h].at = from /\ eng = Free
    /\ \/ /\ Unneeded(FALSE) /\ req' = [req EXCEPT ![h].at = ok]
          /\ UNCHANGED <<eng, disk, proc, hubFaults>>
       \/ /\ ~Unneeded(FALSE) /\ (IF Refused THEN UNCHANGED hubFaults ELSE Fault)
          /\ req' = [req EXCEPT ![h].at = failed] /\ UNCHANGED <<eng, disk, proc>>
       \/ /\ ~Unneeded(FALSE) /\ ~Refused
          /\ Replace(h) /\ req' = [req EXCEPT ![h].at = during] /\ UNCHANGED hubFaults
    /\ UNCHANGED <<saved, applied, wants, hubRequests>>
Apply(h) == Applies(h, "written", "applying", "applied", "failed")
Reapply(h) == Applies(h, "restored", "reapplying", "done", "done")
ApplyEnds(h) ==
    /\ eng.by = h /\ eng' = Free
    /\ \/ Started /\ req' = [req EXCEPT ![h].at = IF @ = "applying" THEN "applied" ELSE "done"]
       \/ Restored /\ req' = [req EXCEPT ![h].at = IF @ = "applying" THEN "failed" ELSE "done"]
    /\ UNCHANGED <<saved, hubRequests>>

\* The row and the profile as the request found them.
Undo(h) ==
    /\ req[h].at = "failed"
    /\ saved' = IF req[h].op = "matrix" THEN [saved EXCEPT !.row = req[h].old]
                                        ELSE [saved EXCEPT !.profile = req[h].oldProfile]
    /\ req' = [Overlapped(h) EXCEPT ![h].at = "restored"]
    /\ UNCHANGED <<disk, proc, applied, wants, eng, hubRequests, hubFaults>>
Answer(h) ==
    /\ req[h].at \in {"applied", "done"}
    /\ saved' = IF req[h].at = "applied" /\ req[h].pending THEN [saved EXCEPT !.pending = FALSE] ELSE saved
    /\ req' = [req EXCEPT ![h] = Nobody]
    /\ UNCHANGED <<disk, proc, applied, wants, eng, hubRequests, hubFaults>>

RuntimeNext ==
    \/ Flush \/ \E force \in BOOLEAN : Command(force)
    \/ FinishApply \/ Stop \/ CoreCrash \/ PanelKilled \/ Register
    \/ \E text \in Texts : PutSetting(text)
    \/ \E h \in Handlers :
          \/ \E policy \in Policies : SetPolicy(h, policy)
          \/ \E e \in Endpoints : SelectEndpoint(h, e)
          \/ Write(h) \/ Apply(h) \/ Reapply(h) \/ ApplyEnds(h) \/ Undo(h) \/ Answer(h)

\* A pass runs at every poll, a lock that is held is released, and a handler
\* goes on to its answer.
RuntimeFairness ==
    /\ WF_runtimeVars(Flush) /\ WF_runtimeVars(FinishApply)
    /\ \A h \in Handlers :
          /\ WF_runtimeVars(Write(h)) /\ WF_runtimeVars(Apply(h)) /\ WF_runtimeVars(Reapply(h))
          /\ WF_runtimeVars(ApplyEnds(h)) /\ WF_runtimeVars(Undo(h)) /\ WF_runtimeVars(Answer(h))
RuntimeSpec == RuntimeInit /\ [][RuntimeNext]_runtimeVars /\ RuntimeFairness

-----------------------------------------------------------------------------
RuntimeTypeOK ==
    /\ saved.row \in Policies /\ saved.profile \in {0} \union Endpoints
    /\ saved.pending \in BOOLEAN /\ saved.text \in Texts
    /\ disk \in Generations \union {NoGen} /\ proc \in Generations \union {NoGen}
    /\ applied \in Generations \union {NoGen} /\ wants \in BOOLEAN
    /\ eng.by \in {"none", "pass", "owner"} \union Handlers
    /\ \A h \in Handlers : req[h].at \in
          {"none", "read", "written", "applying", "applied", "failed", "restored", "reapplying", "done"}
    /\ hubRequests \in 0..MaxHubRequests /\ hubFaults \in 0..HubFaults

\* Whatever is edited while an apply runs, fails or is cut short by a kill
\* (core.py apply): the core runs the generation that is on disk, one Xray
\* accepted, under the hash that tells whether another apply is needed; and a
\* request that undid its write alone leaves the row and the profile it found.
RuntimeIsSound ==
    /\ Running => proc = disk /\ applied = proc /\ proc.text # "rejected"
    /\ \A h \in Handlers : req[h].at \in {"restored", "done"} /\ req[h].alone =>
          IF req[h].op = "matrix" THEN saved.row = req[h].old ELSE saved.profile = req[h].oldProfile

\* Once requests and faults end, a core that is wanted runs the store as it
\* is, unless Xray refuses the text (core.py flush): a pass tries again until
\* the hash of what runs is the hash of what is saved.
HubSettles == <>[](~wants \/ saved.text = "rejected" \/ proc = Compiled)
=============================================================================
