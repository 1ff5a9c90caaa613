--------------------------- MODULE MCRocksJournal ---------------------------
(***************************************************************************)
(* A small instance of RocksJournal for TLC.  Calls one at a time start    *)
(* from an empty store; overlapping calls start after NodechainBootstrap   *)
(* (a first call) has ensured the genesis record and before any other.     *)
(***************************************************************************)
EXTENDS RocksJournal, TLC

BootRecord(b) == [id |-> <<b, 1>>, type |-> "genesis", key |-> GenesisKey,
               height |-> 0, prev |-> GenesisPrev]

BootedInit(b) ==
    /\ serial = FALSE
    /\ pc = [c \in Caller |-> "idle"]
    /\ req = [c \in Caller |-> GenesisRequest]
    /\ found = [c \in Caller |-> NoRecord]
    /\ seenTip = [c \in Caller |-> NoTip]
    /\ chainOk = [c \in Caller |-> TRUE]
    /\ calls = [c \in Caller |-> IF c = b THEN 1 ELSE 0]
    /\ outcome = [c \in Caller |-> IF c = b THEN "ok" ELSE "none"]
    /\ appendCount = 1 % VerifyEveryN
    /\ failClosed = FALSE
    /\ acked = {BootRecord(b)}
    /\ observed = {BootRecord(b)}
    /\ raced = {}
    /\ recordAt = [h \in Height |-> IF h = 0 THEN BootRecord(b) ELSE NoRecord]
    /\ heightOf = [k \in Key |-> IF k = GenesisKey THEN 0 ELSE -1]
    /\ tip = [height |-> 0, hash |-> BootRecord(b).id]
    /\ crashes = 0 /\ failures = 0

MCInit == (Init /\ serial) \/ \E b \in Caller : BootedInit(b)

MCSpec == MCInit /\ [][Next]_vars

CallerSymmetry == Permutations(Caller)
=============================================================================
