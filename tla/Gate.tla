--------------------------------- MODULE Gate ---------------------------------
(***************************************************************************)
(* The CI gate of one contract: pull requests ask for the classification   *)
(* of the schema they propose, GateHandler answers from three reads that   *)
(* no transaction holds together, the CI job passes or fails by the answer *)
(* and a merged request registers and later activates its version.         *)
(*                                                                         *)
(* Registering and activating are each one atomic step here: ContractStore *)
(* models the transactions behind them.  The table lineage_edges only      *)
(* grows; an upsert may change the team of a consumer, or lose it (NULL).  *)
(***************************************************************************)
EXTENDS Evolution, Naturals, Sequences

CONSTANTS
    Requests,      \* pull requests that may be open at once
    Proposals,     \* the versions they may propose
    MaxVersions,   \* bound: rows of contract_versions
    Consumers, Teams,
    NoTeam,        \* consumer_team IS NULL
    Unseen,        \* no edge for this consumer
    NoProposal

ASSUME GateAssumption ==
    /\ Proposals \subseteq Version
    /\ MaxVersions \in Nat
    /\ NoTeam \notin Teams /\ Unseen \notin Teams /\ NoTeam # Unseen
    /\ NoProposal \notin Version

VARIABLES
    rows,       \* contract_versions of the contract, in created_at order
    active,     \* the row that is ACTIVE, 0 if none
    edges,      \* lineage_edges of the topic: the team of each consumer
    pc,         \* where each pull request stands
    proposal,   \* what it proposes
    base,       \* the row its proposal was compared with, 0 if none
    class,      \* the answer: classification,
    approval,   \* requires_approval
    teams,      \* and approval_from_teams
    row,        \* the row it registered
    count,      \* history: how many rows there were when it was compared,
    known       \* history: and which consumers had an edge

db == <<rows, active, edges>>
answer == <<class, approval, teams>>
vars == <<db, pc, proposal, base, answer, row, count, known>>

Known == {c \in Consumers : edges[c] # Unseen}

Init ==
    /\ rows = << >>
    /\ active = 0
    /\ edges = [c \in Consumers |-> Unseen]
    /\ pc = [r \in Requests |-> "idle"]
    /\ proposal = [r \in Requests |-> NoProposal]
    /\ base = [r \in Requests |-> 0]
    /\ class = [r \in Requests |-> "SAFE"]
    /\ approval = [r \in Requests |-> FALSE]
    /\ teams = [r \in Requests |-> {}]
    /\ row = [r \in Requests |-> 0]
    /\ count = [r \in Requests |-> 0]
    /\ known = [r \in Requests |-> {}]

\* The lineage side records or refreshes an edge.
Upsert(c, team) ==
    /\ edges' = [edges EXCEPT ![c] = team]
    /\ UNCHANGED <<rows, active, pc, proposal, base, answer, row, count, known>>

-----------------------------------------------------------------------------
(* GateHandler.ServeHTTP.                                                  *)

Ask(r, version) ==
    /\ pc[r] = "idle"
    /\ pc' = [pc EXCEPT ![r] = "asked"]
    /\ proposal' = [proposal EXCEPT ![r] = version]
    /\ UNCHANGED <<db, base, answer, row, count, known>>

\* The pull request is closed, or its job runs again.
Forget(r) ==
    /\ pc' = [pc EXCEPT ![r] = "idle"]
    /\ proposal' = [proposal EXCEPT ![r] = NoProposal]
    /\ base' = [base EXCEPT ![r] = 0]
    /\ class' = [class EXCEPT ![r] = "SAFE"]
    /\ approval' = [approval EXCEPT ![r] = FALSE]
    /\ teams' = [teams EXCEPT ![r] = {}]
    /\ row' = [row EXCEPT ![r] = 0]
    /\ count' = [count EXCEPT ![r] = 0]
    /\ known' = [known EXCEPT ![r] = {}]

\* 400, 422 (the schema does not parse) or 500 (one of the first two reads).
Fail(r) ==
    /\ pc[r] = "asked"
    /\ Forget(r)
    /\ UNCHANGED db

\* No contract of this name, or no version of it: nothing to break.
AnswerNew(r) ==
    /\ pc[r] = "asked" /\ rows = << >>
    /\ pc' = [pc EXCEPT ![r] = "answered"]
    /\ UNCHANGED <<db, proposal, base, answer, row, count, known>>

\* Mutant: GetLatestVersion orders by created_at ascending.
Earliest == 1

\* GetLatestVersion: the newest row, whatever its status.
Latest == Len(rows)

\* The latest version is read and compared; a BREAKING change asks for approval
\* until the lineage edges say otherwise.
Compare(r) ==
    /\ pc[r] = "asked" /\ rows # << >>
    /\ LET c == Classify(rows[Latest], proposal[r]) IN
         /\ class' = [class EXCEPT ![r] = c]
         /\ approval' = [approval EXCEPT ![r] = c = "BREAKING"]
         /\ pc' = [pc EXCEPT ![r] = IF c = "BREAKING" THEN "breaking" ELSE "answered"]
    /\ base' = [base EXCEPT ![r] = Latest]
    /\ count' = [count EXCEPT ![r] = Len(rows)]
    /\ known' = [known EXCEPT ![r] = Known]
    /\ UNCHANGED <<db, proposal, teams, row>>

\* Mutant: a NULL team is scanned like any other.
ReadEdgesNullable(r) ==
    /\ pc[r] = "breaking"
    /\ approval' = [approval EXCEPT ![r] = Known # {}]
    /\ teams' = [teams EXCEPT ![r] = {edges[c] : c \in Known} \ {""}]
    /\ pc' = [pc EXCEPT ![r] = "answered"]
    /\ UNCHANGED <<db, proposal, base, class, row, count, known>>

\* GetLineageEdges cannot scan a NULL team; uniqueTeams skips an empty one.
ReadEdges(r) ==
    /\ pc[r] = "breaking"
    /\ \A c \in Consumers : edges[c] # NoTeam
    /\ approval' = [approval EXCEPT ![r] = Known # {}]
    /\ teams' = [teams EXCEPT ![r] = {edges[c] : c \in Known} \ {""}]
    /\ pc' = [pc EXCEPT ![r] = "answered"]
    /\ UNCHANGED <<db, proposal, base, class, row, count, known>>

\* Mutant: without consumers to name, no approval is asked for.
EdgesFailOpen(r) ==
    /\ pc[r] = "breaking"
    /\ approval' = [approval EXCEPT ![r] = FALSE]
    /\ pc' = [pc EXCEPT ![r] = "answered"]
    /\ UNCHANGED <<db, proposal, base, class, teams, row, count, known>>

\* It returns an error, for a NULL team or any other reason: a warning only.
EdgesFail(r) ==
    /\ pc[r] = "breaking"
    /\ pc' = [pc EXCEPT ![r] = "answered"]
    /\ UNCHANGED <<db, proposal, base, answer, row, count, known>>

-----------------------------------------------------------------------------
(* After the answer.                                                       *)

\* Mutant: the job fails only when there are teams to ask.
PassesWithoutTeams(r) == ~(class[r] = "BREAKING" /\ approval[r] /\ teams[r] # {})

\* The job fails when the change is BREAKING and requires approval.  Nothing
\* that is recorded later, approvals included, changes its verdict.
Passes(r) == ~(class[r] = "BREAKING" /\ approval[r])

\* "Contract version creation is a separate operation triggered after the PR
\* merges": a DRAFT row.
Register(r) ==
    /\ pc[r] = "answered" /\ Passes(r)
    /\ Len(rows) < MaxVersions
    /\ rows' = Append(rows, proposal[r])
    /\ row' = [row EXCEPT ![r] = Len(rows) + 1]
    /\ pc' = [pc EXCEPT ![r] = "registered"]
    /\ UNCHANGED <<active, edges, proposal, base, answer, count, known>>

Activate(r) ==
    /\ pc[r] = "registered"
    /\ active' = row[r]
    /\ Forget(r)
    /\ UNCHANGED <<rows, edges>>

Close(r) ==
    /\ pc[r] \in {"answered", "registered"}
    /\ Forget(r)
    /\ UNCHANGED db

Next ==
    \/ \E c \in Consumers, t \in Teams \cup {NoTeam} : Upsert(c, t)
    \/ \E r \in Requests, version \in Proposals : Ask(r, version)
    \/ \E r \in Requests :
         \/ Fail(r) \/ AnswerNew(r) \/ Compare(r) \/ ReadEdges(r) \/ EdgesFail(r)
         \/ Register(r) \/ Activate(r) \/ Close(r)

Spec == Init /\ [][Next]_vars

-----------------------------------------------------------------------------
TypeOK ==
    /\ rows \in Seq(Version)
    /\ active \in 0 .. Len(rows)
    /\ edges \in [Consumers -> Teams \cup {NoTeam, Unseen}]
    /\ pc \in [Requests -> {"idle", "asked", "breaking", "answered", "registered"}]
    /\ proposal \in [Requests -> Version \cup {NoProposal}]
    /\ \A r \in Requests : pc[r] # "idle" => proposal[r] \in Version
    /\ base \in [Requests -> 0 .. Len(rows)]
    /\ class \in [Requests -> Classes]
    /\ approval \in [Requests -> BOOLEAN]
    /\ teams \in [Requests -> SUBSET Teams]
    /\ row \in [Requests -> 0 .. Len(rows)]
    /\ count \in [Requests -> 0 .. Len(rows)]
    /\ known \in [Requests -> SUBSET Consumers]

(***************************************************************************)
(* A change that the gate lets through although consumers of the topic     *)
(* were known breaks none of them (Unbroken): those that read with the     *)
(* schema it was compared with can read what is written with the new one   *)
(* and, in BACKWARD mode, the other way round.  Failed reads, edges that   *)
(* come late and teams that get lost make the answer stricter only.        *)
(***************************************************************************)
PassedIsUnbroken ==
    \A r \in Requests :
        pc[r] = "answered" /\ base[r] > 0 /\ known[r] # {} /\ Passes(r)
            => Unbroken(rows[base[r]], proposal[r])

(***************************************************************************)
(* A pull request that no other one overtakes activates no change that     *)
(* breaks known consumers of the version that is ACTIVE: the comparison    *)
(* with the latest row was the comparison with the ACTIVE one.             *)
(***************************************************************************)
Undisturbed(r) == row[r] = count[r] + 1 /\ active = count[r] /\ active > 0

UndisturbedMergeIsUnbroken ==
    [][\A r \in Requests :
         Activate(r) /\ Undisturbed(r) /\ known[r] # {}
             => Unbroken(rows[active], rows[active'])]_vars

(***************************************************************************)
(* When no owner can be named, or consumers are not known to the gate, a   *)
(* BREAKING change is not let through silently unless the edges really     *)
(* were empty: the gate passes a BREAKING change only when no consumer had *)
(* an edge at the time of the comparison.                                  *)
(***************************************************************************)
BreakingPassesUnseenOnly ==
    \A r \in Requests :
        pc[r] \in {"answered", "registered"} /\ class[r] = "BREAKING" /\ Passes(r)
            => known[r] = {}

(***************************************************************************)
(* "Breaking changes require explicit approval from affected team owners": *)
(* no activation that nobody was asked about breaks a consumer that was    *)
(* known when its pull request was compared.                               *)
(***************************************************************************)
BreakingNeedsApproval ==
    [][\A r \in Requests :
         Activate(r) /\ active > 0 /\ known[r] # {}
             => Unbroken(rows[active], rows[active'])]_vars
===============================================================================
