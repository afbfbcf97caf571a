---------------------------- MODULE ManualServers ----------------------------
(***************************************************************************)
(* Servers that operators allocate and deallocate by hand: the pages of    *)
(* controlpanel/allocations.go and controlpanel/fleets.go over the Manager *)
(* of fleet/manager.go, its rows and the Agones backend.  No resolution    *)
(* stands behind such a server (FleetMatch models those), so nothing but   *)
(* its row leads back to it.                                               *)
(*                                                                         *)
(* A call of the backend may fail after it took effect.  The client of the *)
(* backend refuses to delete a server without a name, so a row that has no *)
(* reference yet cannot be deallocated.                                    *)
(***************************************************************************)
EXTENDS Naturals

CONSTANTS
  Templates,   \* fleets
  Ledger,      \* game_server_allocations, one row for each request to allocate
  Removers,    \* requests to deallocate
  Retries      \* ManagerOptions.Retries

ASSUME ManualAssumption == Retries \in Nat

VARIABLES
  template,  \* "absent", "live" or "deleted"
  ledger,    \* the status of each row and its backend_ref
  request,   \* Allocate, one call for each row
  remover,   \* Deallocate
  machines,  \* the servers that run, named by their row and the attempt
  strays     \* servers that a failed call or a crash left without a reference

msVars == <<template, ledger, request, remover, machines, strays>>

NoRef == 0
Attempts == 1 .. Retries + 1
Machine(a, ref) == [row |-> a, ref |-> ref]
Machines == [row : Ledger, ref : Attempts]

NoEntryYet == [status |-> "none", ref |-> NoRef]
NoRequest == [at |-> "idle", ref |-> NoRef]
NoRemoval == [at |-> "idle", row |-> CHOOSE a \in Ledger : TRUE, ref |-> NoRef]

ManualTypeOK ==
  /\ template \in [Templates -> {"absent", "live", "deleted"}]
  /\ ledger \in [Ledger -> [status : {"none", "pending", "ready", "failed", "shutdown"},
                            ref : Attempts \cup {NoRef}]]
  /\ request \in [Ledger -> [at : {"idle", "named", "asks", "marks", "cleans", "fails", "done"},
                             ref : Attempts \cup {NoRef}]]
  /\ remover \in [Removers -> [at : {"idle", "calls", "releases"}, row : Ledger,
                               ref : Attempts \cup {NoRef}]]
  /\ machines \subseteq Machines /\ strays \subseteq Machines

ManualInit ==
  /\ template = [t \in Templates |-> "absent"]
  /\ ledger = [a \in Ledger |-> NoEntryYet]
  /\ request = [a \in Ledger |-> NoRequest]
  /\ remover = [d \in Removers |-> NoRemoval]
  /\ machines = {} /\ strays = {}

-----------------------------------------------------------------------------
(* Templates *)

CreateTemplate(t) ==
  /\ template[t] = "absent"
  /\ template' = [template EXCEPT ![t] = "live"]
  /\ UNCHANGED <<ledger, request, remover, machines, strays>>

\* SoftDelete: the row stays, for the servers that were made from it.
DeleteTemplate(t) ==
  /\ template[t] = "live"
  /\ template' = [template EXCEPT ![t] = "deleted"]
  /\ UNCHANGED <<ledger, request, remover, machines, strays>>

-----------------------------------------------------------------------------
(* Allocate *)

Goes(a, at) ==
  request' = [request EXCEPT ![a] = [at |-> at, ref |-> IF at = "done" THEN NoRef ELSE request[a].ref]]

\* allocationsAllocateHandler: the name of a template that is not deleted.
AskByName(a, t) ==
  /\ request[a].at = "idle" /\ template[t] = "live"
  /\ Goes(a, "named")
  /\ UNCHANGED <<template, ledger, remover, machines, strays>>

\* GetByID finds a template that was deleted meanwhile, too.
InsertPending(a) ==
  /\ request[a].at = "named"
  /\ ledger' = [ledger EXCEPT ![a].status = "pending"]
  /\ request' = [request EXCEPT ![a] = [at |-> "asks", ref |-> 1]]
  /\ UNCHANGED <<template, remover, machines, strays>>

BackendAllocates(a) ==
  /\ request[a].at = "asks"
  /\ machines' = machines \cup {Machine(a, request[a].ref)}
  /\ Goes(a, "marks")
  /\ UNCHANGED <<template, ledger, remover, strays>>

\* An error, of a call that made a server or of one that did not; then another
\* attempt, or none.
BackendErrs(a, made) ==
  LET m == IF made THEN {Machine(a, request[a].ref)} ELSE {} IN
  /\ request[a].at = "asks"
  /\ machines' = machines \cup m /\ strays' = strays \cup m
  /\ request' = [request EXCEPT ![a] = IF request[a].ref > Retries
                                       THEN [at |-> "fails", ref |-> request[a].ref]
                                       ELSE [at |-> "asks", ref |-> request[a].ref + 1]]
  /\ UNCHANGED <<template, ledger, remover>>

\* The request is cancelled between two attempts.  MarkFailed is called with
\* the context that was cancelled, so the row stays as it is.
BackoffEnds(a) ==
  /\ request[a].at = "asks" /\ request[a].ref > 1
  /\ Goes(a, "done")
  /\ UNCHANGED <<template, ledger, remover, machines, strays>>

Pending(a) == ledger[a].status = "pending"

\* store.MarkReady: of a row that is pending.  An error may hide a commit.
MarkReady(a, answered) ==
  /\ request[a].at = "marks"
  /\ \/ /\ Pending(a)
        /\ ledger' = [ledger EXCEPT ![a] = [status |-> "ready", ref |-> request[a].ref]]
        /\ Goes(a, IF answered THEN "done" ELSE "cleans")
     \/ /\ ~answered
        /\ Goes(a, "cleans")
        /\ UNCHANGED ledger
  /\ UNCHANGED <<template, remover, machines, strays>>

\* cleanupAfterMarkReadyFailure, in a context of its own.
CleanUp(a) ==
  /\ request[a].at = "cleans"
  /\ machines' = machines \ {Machine(a, request[a].ref)}
  /\ Goes(a, "fails")
  /\ UNCHANGED <<template, ledger, remover, strays>>

\* The backend fails to delete the server; the error goes to the row's events.
CleanUpErrs(a) ==
  /\ request[a].at = "cleans"
  /\ strays' = strays \cup {Machine(a, request[a].ref)}
  /\ Goes(a, "fails")
  /\ UNCHANGED <<template, ledger, remover, machines>>

\* MarkAllocationFailed without its condition.
FailedAnyway(row) == [row EXCEPT !.status = "failed"]

\* A released row stays shutdown.
Failed(row) == IF row.status = "shutdown" THEN row ELSE [row EXCEPT !.status = "failed"]

MarkFailed(a) ==
  /\ request[a].at = "fails"
  /\ ledger' = [ledger EXCEPT ![a] = Failed(@)]
  /\ Goes(a, "done")
  /\ UNCHANGED <<template, remover, machines, strays>>

\* The database fails, or the process ends: nobody goes on.
RequestEnds(a) ==
  /\ request[a].at \in {"named", "asks", "marks", "cleans", "fails"}
  /\ strays' = strays \cup IF request[a].at \in {"marks", "cleans"}
                           THEN {Machine(a, request[a].ref)} ELSE {}
  /\ Goes(a, "done")
  /\ UNCHANGED <<template, ledger, remover, machines>>

-----------------------------------------------------------------------------
(* Deallocate *)

Terminal(row) == row.status \in {"none", "shutdown", "failed"}

\* allocationsDeallocateHandler, and Deallocate's own read of the row.
ReadRow(d, a) ==
  /\ remover[d].at = "idle" /\ ~Terminal(ledger[a])
  /\ remover' = [remover EXCEPT ![d] = [at |-> "calls", row |-> a, ref |-> ledger[a].ref]]
  /\ UNCHANGED <<template, ledger, request, machines, strays>>

\* A failed call does not end Deallocate.
ErrIgnored == "releases"

\* Errors of the backend bubble up: the row is as it was, and the operator
\* may try again.
AfterErr == "idle"

Finds(d, at) ==
  remover' = [remover EXCEPT ![d] = IF at = "idle" THEN NoRemoval
                                    ELSE [at |-> at, row |-> remover[d].row, ref |-> remover[d].ref]]

\* A server that is gone already counts as deleted.
BackendDeletes(d) ==
  /\ remover[d].at = "calls" /\ remover[d].ref # NoRef
  /\ machines' = machines \ {Machine(remover[d].row, remover[d].ref)}
  /\ Finds(d, "releases")
  /\ UNCHANGED <<template, ledger, request, strays>>

BackendRefuses(d) ==
  /\ remover[d].at = "calls"
  /\ \/ UNCHANGED machines
     \/ machines' = machines \ {Machine(remover[d].row, remover[d].ref)}
  /\ Finds(d, AfterErr)
  /\ UNCHANGED <<template, ledger, request, strays>>

\* store.Release, whatever the row has become.
Release(d) ==
  /\ remover[d].at = "releases"
  /\ ledger' = [ledger EXCEPT ![remover[d].row].status = "shutdown"]
  /\ Finds(d, "idle")
  /\ UNCHANGED <<template, request, machines, strays>>

\* The database fails, or the process ends.
ReleaseErrs(d) ==
  /\ remover[d].at = "releases"
  /\ Finds(d, "idle")
  /\ UNCHANGED <<template, ledger, request, machines, strays>>

-----------------------------------------------------------------------------

ManualNext ==
  \/ \E t \in Templates : CreateTemplate(t) \/ DeleteTemplate(t)
  \/ \E a \in Ledger :
       \/ \E t \in Templates : AskByName(a, t)
       \/ \E b \in BOOLEAN : BackendErrs(a, b) \/ MarkReady(a, b)
       \/ InsertPending(a) \/ BackendAllocates(a) \/ BackoffEnds(a) \/ CleanUp(a)
       \/ CleanUpErrs(a) \/ MarkFailed(a) \/ RequestEnds(a)
  \/ \E d \in Removers :
       \/ \E a \in Ledger : ReadRow(d, a)
       \/ BackendDeletes(d) \/ BackendRefuses(d) \/ Release(d) \/ ReleaseErrs(d)

ManualSpec == ManualInit /\ [][ManualNext]_msVars

-----------------------------------------------------------------------------

\* A server that runs is in the hands of the request that made it, or on a row
\* that still lets operators deallocate it, or a call that failed lost it.
ServersAccounted ==
  \A m \in machines :
    \/ m \in strays
    \/ request[m.row].at \in {"marks", "cleans"} /\ request[m.row].ref = m.ref
    \/ ledger[m.row] = [status |-> "ready", ref |-> m.ref]

\* ManualSound: however operators, retries and failing calls interleave, no
\* server drops out of the rows without a failed call, and a row that was
\* released is never taken up again: "the store update happens only on backend
\* success so we don't lose the ability to retry shutdown" (fleet/manager.go).
ManualSound ==
  [][/\ ServersAccounted'
     /\ \A a \in Ledger : ledger[a].status = "shutdown" => ledger'[a] = ledger[a]]_msVars
=============================================================================
