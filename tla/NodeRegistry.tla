----------------------------- MODULE NodeRegistry -----------------------------
(***************************************************************************)
(* The network's nodes: who takes part, as the registry behind the HTTP    *)
(* API holds it in memory and as the journal says.  Memory changes at      *)
(* once, the record follows; the journal appends in the order of the       *)
(* calls, and keeps one record of a key.  The nodes the program starts     *)
(* with are in memory only.  Heartbeats, reputation and the grace period   *)
(* after a suspension, which nothing reads, are left out.                  *)
(* Bounds: Role, MaxPending records wait, MaxDisturbances failures and     *)
(* restarts.                                                               *)
(***************************************************************************)
EXTENDS Naturals, Sequences

CONSTANTS Node, Role,
          Founders,        \* nodes known from the start, confirmers
          MaxPending, MaxDisturbances

ASSUME RegistryAssumption ==
    /\ Founders \subseteq Node /\ "confirmer" \in Role
    /\ {MaxPending, MaxDisturbances} \subseteq Nat

VARIABLES byId,            \* memory
          pending,         \* appends under way, in order
          enrolled,        \* nodes with a record of their registration
          word,            \* the last record of a node
          disturbances,
          adrift           \* ghost: nodes changed in memory without a record

registryVars == <<byId, pending, enrolled, word, disturbances, adrift>>

Unknown == [status |-> "unknown", role |-> "confirmer"]
As(status, role) == [status |-> status, role |-> role]
Kind == {"register", "suspend", "restore"}

\* Types; unless something failed, a node with a record was registered before, or
\* was there.
RegistryTypeOK ==
    /\ byId \in [Node -> [status : {"unknown", "active", "suspended"}, role : Role]]
    /\ pending \in Seq([kind : Kind, node : Node]) /\ Len(pending) <= MaxPending
    /\ word \in [Node -> Kind \cup {"none"}]
    /\ {enrolled, adrift} \subseteq SUBSET Node /\ disturbances \in 0..MaxDisturbances
    /\ \A n \in Node : word[n] # "none" => n \in Founders \cup enrolled \/ disturbances > 0

\* registerMany, on starting.
Known == [n \in Node |-> IF n \in Founders THEN As("active", "confirmer") ELSE Unknown]

RegistryInit ==
    /\ byId = Known /\ pending = <<>> /\ enrolled = {}
    /\ word = [n \in Node |-> "none"]
    /\ disturbances = 0 /\ adrift = {}

Changes(n, row, kind) ==
    /\ Len(pending) < MaxPending
    /\ byId' = [byId EXCEPT ![n] = row]
    /\ pending' = Append(pending, [kind |-> kind, node |-> n])
    /\ UNCHANGED <<enrolled, word, disturbances, adrift>>

\* An active node is answered as it is; a suspended one is active again.
RegisterNode(n, role) ==
    /\ byId[n].status # "active"
    /\ Changes(n, As("active", role), "register")

\* Suspended again, it is recorded again.
SuspendNode(n) ==
    /\ byId[n].status # "unknown"
    /\ Changes(n, As("suspended", byId[n].role), "suspend")

\* Faulty variant of RestoreNode: nothing is appended.
RestoreNodeQuietly(n) ==
    /\ byId[n].status # "unknown"
    /\ byId' = [byId EXCEPT ![n].status = "active"]
    /\ UNCHANGED <<pending, enrolled, word, disturbances, adrift>>

RestoreNode(n) ==
    /\ byId[n].status # "unknown"
    /\ Changes(n, As("active", byId[n].role), "restore")

\* Whether an append makes a record: the key of a registration is its node, that
\* of the others has the time.
Records(kind, n) == kind = "register" => n \notin enrolled

AppendNext ==
    LET next == Head(pending) n == next.node IN
    /\ pending # <<>> /\ pending' = Tail(pending)
    /\ IF Records(next.kind, n)
       THEN /\ word' = [word EXCEPT ![n] = next.kind]
            /\ enrolled' = IF next.kind = "register" THEN enrolled \cup {n} ELSE enrolled
            /\ adrift' = adrift \ {n}
       ELSE /\ adrift' = IF next.kind = "register" THEN adrift \cup {n} ELSE adrift
            /\ UNCHANGED <<word, enrolled>>
    /\ UNCHANGED <<byId, disturbances>>

\* The call fails, the memory stays changed.
AppendBreaks ==
    /\ pending # <<>> /\ pending' = Tail(pending)
    /\ disturbances < MaxDisturbances /\ disturbances' = disturbances + 1
    /\ adrift' = adrift \cup {Head(pending).node}
    /\ UNCHANGED <<byId, enrolled, word>>

\* The registry is not read back from the journal.
RegistryRestarts ==
    /\ disturbances < MaxDisturbances /\ disturbances' = disturbances + 1
    /\ byId' = Known /\ pending' = <<>>
    /\ adrift' = {n \in Node : word[n] # "none"}
    /\ UNCHANGED <<enrolled, word>>

RegistryNext ==
    \/ \E n \in Node : SuspendNode(n) \/ RestoreNode(n) \/ \E role \in Role : RegisterNode(n, role)
    \/ AppendNext \/ AppendBreaks \/ RegistryRestarts

RegistrySpec == RegistryInit /\ [][RegistryNext]_registryVars
-----------------------------------------------------------------------------
\* With no record under way, a node is suspended in memory exactly if the last
\* record says so; unless a record could not be made, the program has started
\* again since, or the node came back by registering once more, of which there is
\* no record.
StatusIsRecorded ==
    pending = <<>> =>
        \A n \in Node \ adrift :
            byId[n].status = CASE word[n] = "suspend" -> "suspended"
                               [] word[n] \in {"register", "restore"} -> "active"
                               [] OTHER -> Known[n].status

\* Nodes are known alike in the registry and in the journal; the exceptions are named.
NodesAreKnown ==
    /\ RegistryTypeOK
    /\ StatusIsRecorded
=============================================================================
