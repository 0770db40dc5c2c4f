----------------------------- MODULE RouterRestart -----------------------------
(***************************************************************************)
(* The router over a registry that outlives its process.  A deployment     *)
(* reads items with registry.get and may be killed between any two awaits: *)
(* the tasks, the locks and the objects are lost, and the next process     *)
(* starts from what upsert had written.                                    *)
(***************************************************************************)
EXTENDS Router

\* Mutant: registry.get does not restore which URLs discovery has seen.
LoadForgetsSeen(o) ==
    /\ \A c \in Callers : frame[c].item # o
    /\ obj' = [obj EXCEPT ![o] = [stored[IdOf[o]] EXCEPT !.discovered_urls_seen = {}]]
    /\ UNCHANGED <<config, stored, lock, pc, frame, torn>>

\* registry.get hands out a fresh object for an id; nobody is using object o.
Load(o) ==
    /\ \A c \in Callers : frame[c].item # o
    /\ obj' = [obj EXCEPT ![o] = stored[IdOf[o]]]
    /\ UNCHANGED <<config, stored, lock, pc, frame, torn>>

Restart ==
    /\ lock' = [i \in Ids |-> <<>>]
    /\ pc' = [c \in Callers |-> "idle"]
    /\ frame' = [c \in Callers |-> NoFrame]
    /\ obj' = [o \in Objects |-> stored[IdOf[o]]]
    /\ torn' = {}
    /\ UNCHANGED <<config, stored>>

RestartNext == Next \/ Restart \/ \E o \in Objects : Load(o)

RestartSpec == Init /\ [][RestartNext]_vars

FairRestartSpec == RestartSpec /\ \A c \in Callers : WF_vars(Step(c))

\* The registry never forgets or replaces a source: discovery adds to an item's
\* registration and nothing it does, nor any crash, takes the source away
\* (design spec, section 3: "never auto-replace").
SourceNeverReplaced ==
    [][\A i \in Ids : stored[i].current_sources # <<>> =>
          stored'[i].current_sources = stored[i].current_sources]_stored

\* What discovery staged for review stays staged, in the order it was found.
StagedNeverDropped ==
    [][\A i \in Ids :
          IsPrefix(stored[i].candidate_sources, stored'[i].candidate_sources)]_stored

\* What discovery has once seen of an item, the registry never forgets, so that a later
\* discovery discards it, in this process and in the next (design spec, section 3:
\* "Duplicate of a previously-seen discovery").
SeenNeverForgotten ==
    [][\A i \in Ids :
          stored[i].discovered_urls_seen \subseteq stored'[i].discovered_urls_seen]_stored

===============================================================================
