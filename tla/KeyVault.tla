------------------------------- MODULE KeyVault -------------------------------
(***************************************************************************)
(* The software HSM, the other place key pairs are kept (HsmKeyProvider):  *)
(* a vault beside the journal, with private keys sealed under a master key *)
(* that comes from the environment, and public keys in plain.  A start     *)
(* reads the vault, makes the pairs it misses and writes the vault back;   *)
(* private keys are unsealed when first used.  A program is at             *)
(*   down      not running          loaded   its pairs are to be written   *)
(*   writing   the file is empty    up       signs and verifies            *)
(* A pair is a number; a record of the journal is who signed it with what. *)
(* Bounds: MaxPairs are ever made, MaxProgramStarts; killed at any point.  *)
(***************************************************************************)
EXTENDS Naturals, FiniteSets

CONSTANTS KeyId, Master,
          Versions,          \* the key ids a version of the program asks for
          MaxPairs, MaxProgramStarts

ASSUME VaultAssumption ==
    /\ IsFiniteSet(KeyId) /\ Versions \subseteq SUBSET KeyId /\ Master # {}
    /\ {MaxPairs, MaxProgramStarts} \subseteq Nat

VARIABLES vault,             \* the file, with whether it can be read
          program, ids,      \* where the program is, what it asks for
          master,            \* the master key it was started with
          sealed, cache,     \* its pairs, sealed and unsealed
          signatures,            \* the journal's signatures
          pairs, programStarts,
          remade,              \* ghost: a vault was found unreadable that records needed
          masters            \* ghost: masters the pairs of the vault were made under

provider == <<program, ids, master, sealed, cache>>
vaultVars == <<vault, provider, signatures, pairs, programStarts, remade, masters>>

NoPair == 0
PairNumber == 0..MaxPairs
Sealed == [pair : PairNumber, under : Master]
Nothing == [k \in KeyId |-> [pair |-> NoPair, under |-> CHOOSE m \in Master : TRUE]]
NoCache == [k \in KeyId |-> NoPair]
File(readable, content) == [readable |-> readable, content |-> content]

\* Types; what is unsealed is what is sealed, and nothing is held by no program.
VaultTypeOK ==
    /\ vault \in [readable : BOOLEAN, content : [KeyId -> Sealed]]
    /\ program \in {"down", "loaded", "writing", "up"} /\ ids \subseteq KeyId
    /\ master \in Master /\ sealed \in [KeyId -> Sealed] /\ cache \in [KeyId -> PairNumber]
    /\ signatures \subseteq KeyId \X (1..MaxPairs)
    /\ pairs \in PairNumber /\ programStarts \in 0..MaxProgramStarts
    /\ remade \in BOOLEAN /\ masters \subseteq Master
    /\ \A k \in KeyId : cache[k] \in {NoPair, sealed[k].pair}
    /\ program = "down" => sealed = Nothing

VaultInit ==
    /\ vault = File(FALSE, Nothing) /\ program = "down" /\ ids = {}
    /\ master = CHOOSE m \in Master : TRUE
    /\ sealed = Nothing /\ cache = NoCache /\ signatures = {}
    /\ pairs = 0 /\ programStarts = 0 /\ remade = FALSE /\ masters = {}

\* hasPrivate, whoever could unseal it.
HasPrivate(content, k) == content[k].pair # NoPair

\* Faulty variant of Missing: what cannot be unsealed counts as missing.
MissingUnlessOpens(content, m, wanted) ==
    {k \in wanted : ~HasPrivate(content, k) \/ content[k].under # m}

\* The pairs a start makes.
Missing(content, m, wanted) == {k \in wanted : ~HasPrivate(content, k)}

\* loadOrCreate: a vault that is missing, empty or no JSON is a new one.
LoadVault(m, wanted) ==
    LET content == IF vault.readable THEN vault.content ELSE Nothing
        missing == Missing(content, m, wanted)
    IN  /\ program = "down" /\ programStarts < MaxProgramStarts
        /\ pairs + Cardinality(missing) <= MaxPairs
        /\ \E number \in [missing -> (pairs + 1)..(pairs + Cardinality(missing))] :
              /\ \A j, k \in missing : j # k => number[j] # number[k]
              /\ sealed' = [k \in KeyId |-> IF k \in missing
                                            THEN [pair |-> number[k], under |-> m]
                                            ELSE content[k]]
              /\ cache' = [k \in KeyId |-> IF k \in missing THEN number[k] ELSE NoPair]
        /\ pairs' = pairs + Cardinality(missing) /\ programStarts' = programStarts + 1
        /\ program' = "loaded" /\ ids' = wanted /\ master' = m
        /\ remade' = (remade \/ (~vault.readable /\ signatures # {}))
        /\ masters' = (IF vault.readable THEN masters ELSE {}) \cup {m}
        /\ UNCHANGED <<vault, signatures>>

EmptyVault ==
    /\ program = "loaded" /\ program' = "writing"
    /\ vault' = File(FALSE, Nothing)
    /\ UNCHANGED <<ids, master, sealed, cache, signatures, pairs, programStarts, remade, masters>>

\* persist
WriteVault ==
    /\ program = "writing" /\ program' = "up"
    /\ vault' = File(TRUE, sealed)
    /\ UNCHANGED <<ids, master, sealed, cache, signatures, pairs, programStarts, remade, masters>>

\* Whether unlock succeeds.
Unlocks(k) == cache[k] # NoPair \/ (HasPrivate(sealed, k) /\ sealed[k].under = master)

\* sign; if the pair cannot be unsealed it throws and nothing changes.
SignRecord(k) ==
    /\ program = "up" /\ k \in ids /\ Unlocks(k)
    /\ cache' = [cache EXCEPT ![k] = sealed[k].pair]
    /\ signatures' = signatures \cup {<<k, sealed[k].pair>>}
    /\ UNCHANGED <<vault, program, ids, master, sealed, pairs, programStarts, remade, masters>>

ProgramEnds ==
    /\ program # "down" /\ program' = "down"
    /\ sealed' = Nothing /\ cache' = NoCache
    /\ UNCHANGED <<vault, ids, master, signatures, pairs, programStarts, remade, masters>>

VaultNext ==
    \/ \E m \in Master, wanted \in Versions : LoadVault(m, wanted)
    \/ EmptyVault \/ WriteVault \/ ProgramEnds
    \/ \E k \in KeyId : SignRecord(k)

VaultSpec == VaultInit /\ [][VaultNext]_vaultVars

\* verify: with the public key, which is in plain.
VerifiesRecord(record) ==
    record[2] = IF cache[record[1]] # NoPair THEN cache[record[1]] ELSE sealed[record[1]].pair
-----------------------------------------------------------------------------
\* Whatever its master key, a program that is up verifies every record, and the
\* vault holds the pairs it was signed with; unless a start found the vault
\* unreadable, as after a kill while it was written, and made all pairs anew.
VaultKeepsPairs ==
    ~remade =>
        \A r \in signatures :
            /\ program # "down" => VerifiesRecord(r)
            /\ vault.readable => vault.content[r[1]].pair = r[2]

\* A program can sign with every key it asks for, if all starts since the vault was
\* made had the same master key.  One start with another does no harm to pairs that
\* were there, but those it made are sealed under its own.
OneMasterSigns ==
    program = "up" /\ Cardinality(masters) <= 1 => \A k \in ids : Unlocks(k)

\* No start makes a pair for a key id that has one in the vault.
PairsAreKept ==
    [][program = "down" /\ program' = "loaded" /\ vault.readable =>
        \A k \in KeyId : HasPrivate(vault.content, k) => sealed'[k] = vault.content[k]]_vaultVars
=============================================================================
