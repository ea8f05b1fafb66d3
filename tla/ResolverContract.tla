--------------------------- MODULE ResolverContract ---------------------------
(***************************************************************************)
(* What a LibdenoRuntime promises the runs that share its resolver stack,  *)
(* with no word on how: a run is served, in one step, a stack made of      *)
(* inputs that lay on disk together at some instant of its own wait, and   *)
(* of unprobed inputs no older than the last refresh() that had returned   *)
(* when it began.  It fails over changing inputs only if they really       *)
(* changed more often than the builder retries.                            *)
(***************************************************************************)
EXTENDS Naturals, FiniteSets

CONSTANTS Runs,          \* calls of run_with and its kin on one runtime
          MaxEdits,      \* bound: edits of all inputs together
          Attempts       \* builds a run tries before it gives up

VARIABLES disk,          \* [input -> version] as the filesystem and environment hold it
          promise,       \* the unprobed version at the last refresh()
          phase,         \* per run: "new", "refused", "waiting", "served", "failed", "error", "dropped"
          seen,          \* per waiting run: what lay on disk since it began
          floor,         \* per run: promise when it began
          got            \* per run: the inputs of the stack it was given

vars == <<disk, promise, phase, seen, floor, got>>

Probed == {"config", "npmrc", "env", "lock"}
Inputs == Probed \cup {"unprobed"}
Nothing == [i \in Inputs |-> 0]
Visible(d) == [i \in Probed |-> d[i]]

Init == /\ disk = Nothing
        /\ promise = 0
        /\ phase = [r \in Runs |-> "new"]
        /\ seen = [r \in Runs |-> {}]
        /\ floor = [r \in Runs |-> 0]
        /\ got = [r \in Runs |-> Nothing]

Edit(i) == /\ disk[i] < MaxEdits
           /\ disk' = [disk EXCEPT ![i] = @ + 1]
           /\ seen' = [r \in Runs |-> IF phase[r] = "waiting"
                                      THEN seen[r] \cup {Visible(disk')} ELSE seen[r]]
           /\ UNCHANGED <<promise, phase, floor, got>>

Refresh == /\ promise' = disk["unprobed"]
           /\ UNCHANGED <<disk, phase, seen, floor, got>>

Refuse(r) == /\ phase[r] = "new"
             /\ phase' = [phase EXCEPT ![r] = "refused"]
             /\ UNCHANGED <<disk, promise, seen, floor, got>>

Begin(r) == /\ phase[r] = "new"
            /\ phase' = [phase EXCEPT ![r] = "waiting"]
            /\ seen' = [seen EXCEPT ![r] = {Visible(disk)}]
            /\ floor' = [floor EXCEPT ![r] = promise]
            /\ UNCHANGED <<disk, promise, got>>

End(r, how) == /\ phase[r] = "waiting"
               /\ phase' = [phase EXCEPT ![r] = how]
               /\ seen' = [seen EXCEPT ![r] = {}]
               /\ UNCHANGED <<disk, promise, floor>>

Serve(r) == /\ End(r, "served")
            /\ \E v \in seen[r], u \in floor[r]..disk["unprobed"] :
                 got' = [got EXCEPT ![r] =
                           [i \in Inputs |-> IF i = "unprobed" THEN u ELSE v[i]]]

\* RESOLVER_INPUTS_CHANGED: every attempt met an edit of its own.
InputsChanged(r) == /\ End(r, "failed")
                    /\ Cardinality(seen[r]) > Attempts
                    /\ UNCHANGED got

BuildError(r) == End(r, "error") /\ UNCHANGED got
Drop(r) == End(r, "dropped") /\ UNCHANGED got

Next == \/ \E i \in Inputs : Edit(i)
        \/ Refresh
        \/ \E r \in Runs : \/ Refuse(r) \/ Begin(r) \/ Serve(r) \/ InputsChanged(r)
                           \/ BuildError(r) \/ Drop(r)

Spec == Init /\ [][Next]_vars
=============================================================================
