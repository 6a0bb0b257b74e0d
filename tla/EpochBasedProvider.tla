-------------------------- MODULE EpochBasedProvider --------------------------
(***************************************************************************)
(* EpochBasedProvider (api_epoch_based_provider.go) on top of              *)
(* ProtocolEpochVersions (api_protocol_epoch_versions.go): which protocol  *)
(* version, and so which API, is in force.  A method runs under the        *)
(* provider's mutex and is one action, except AddProtocolParametersAtEpoch *)
(* which takes the mutex twice.  A node sets a callback that builds the    *)
(* API of the versions after 3, a client does not.                         *)
(***************************************************************************)
EXTENDS Integers, Sequences, FiniteSetsExt, SequencesExt, TLC

CONSTANTS
    Version,        \* protocol versions, positive numbers
    GenesisVersion, \* the version in force from epoch 0; no API is older than 3
    StartEpoch,     \* the epoch the network agreed on for each version
    SlotsPerEpoch,
    MaxSlot         \* bound on the slots

ASSUME ProviderAssumption ==
    /\ Version \subseteq Nat \ {0}
    /\ StartEpoch \in [Version -> Nat]
    /\ GenesisVersion \in Version /\ GenesisVersion >= 3 /\ StartEpoch[GenesisVersion] = 0
    /\ \A v \in Version \ {GenesisVersion} : v > GenesisVersion /\ StartEpoch[v] > 0
    /\ SlotsPerEpoch \in Nat \ {0}
    /\ MaxSlot \in Nat

VARIABLES
    versions,       \* protocolVersions.versionsPerEpoch
    params,         \* keys of protocolParametersByVersion
    future,         \* keys of futureProtocolParametersByVersion
    latest,         \* version of latestAPI, or NoVersion for nil
    committed,      \* version of committedAPI, or NoVersion for nil
    committedSlot,
    highestSlot,    \* the highest slot ever passed to SetCommittedSlot
    pending,        \* AddProtocolParametersAtEpoch calls between their two halves
    panicked,
    callback        \* optsAPIForMissingVersionCallback is set

vars == <<versions, params, future, latest, committed, committedSlot, highestSlot, pending, panicked, callback>>

NoVersion == 0
Known == {versions[i].version : i \in DOMAIN versions}

(* TimeProvider.EpochFromSlot with a genesis slot of 0. *)
EpochFromSlot(s) == s \div SlotsPerEpoch

-----------------------------------------------------------------------------
(* Mutant: the versions are scanned from the oldest on. *)
VersionForEpochOldest(vs, e) ==
    IF vs # <<>> /\ vs[1].epoch <= e THEN vs[1].version ELSE NoVersion

(* VersionForEpoch scans from the last entry down; NoVersion is its panic. *)
VersionForEpoch(vs, e) ==
    LET started == {i \in DOMAIN vs : vs[i].epoch <= e}
    IN  IF started = {} THEN NoVersion ELSE vs[Max(started)].version

(* ProtocolEpochVersions.Add: the first registration wins.  To append it   *)
(* and to sort the slice puts it behind the smaller versions.              *)
Added(vs, v, e) ==
    LET smaller == {i \in DOMAIN vs : vs[i].version < v}
    IN  IF v \in Known THEN vs
        ELSE InsertAt(vs, Max({0} \cup smaller) + 1, [version |-> v, epoch |-> e])

(* The switch over the versions, and the callback after it. *)
HasAPI(v) == v = 3 \/ callback

(* apiForVersion succeeds, with the parameters of the versions ps. *)
apiForVersion(ps, v) == v # NoVersion /\ (v \in {latest, committed} \/ (v \in ps /\ HasAPI(v)))
ApiAvailable(v) == apiForVersion(params, v)

(* updateCommittedAPI, which panics if no version covers the epoch or if   *)
(* the parameters of the version are missing.                              *)
UpdateCommittedAPI(vs, s) ==
    LET v == VersionForEpoch(vs, EpochFromSlot(s))
    IN  IF latest = NoVersion \/ (v # NoVersion /\ v <= committed)
        THEN UNCHANGED <<committed, panicked>>
        ELSE IF ApiAvailable(v)
             THEN committed' = v /\ UNCHANGED panicked
             ELSE panicked' = TRUE /\ UNCHANGED committed

(* APIForVersion returns an API; APIForEpoch and APIForSlot do not panic. *)
APIForVersion(v) == ApiAvailable(v)
APIForEpoch(e) == ApiAvailable(VersionForEpoch(versions, e))
APIForSlot(s) == latest # NoVersion /\ APIForEpoch(EpochFromSlot(s))

(* VersionsAndProtocolParametersHash finds a hash for the version. *)
ParametersHashExists(v) == v \in params \cup future

-----------------------------------------------------------------------------
Init ==
    /\ versions = <<>> /\ params = {} /\ future = {}
    /\ latest = NoVersion /\ committed = NoVersion
    /\ committedSlot = 0 /\ highestSlot = 0
    /\ pending = {} /\ panicked = FALSE
    /\ callback \in BOOLEAN

(* No version is known yet. *)
SettingUp == versions = <<>>
Running == ~panicked

SetCommittedSlot(s) ==
    /\ Running
    /\ committedSlot' = s
    /\ highestSlot' = IF s > highestSlot THEN s ELSE highestSlot
    /\ UpdateCommittedAPI(versions, s)
    /\ UNCHANGED <<versions, params, future, latest, pending, callback>>

(* AddProtocolParameters: the API of the version becomes the latest one if *)
(* there is no later one, and the call panics if there is no such API.     *)
AddProtocolParameters(v) ==
    /\ params' = params \cup {v}
    /\ future' = future \ {v}
    /\ IF v <= latest
       THEN UNCHANGED <<latest, panicked>>
       ELSE IF apiForVersion(params \cup {v}, v)
            THEN latest' = v /\ UNCHANGED panicked
            ELSE panicked' = TRUE /\ UNCHANGED latest

(* The two halves of AddProtocolParametersAtEpoch. *)
AddParametersHalf(v) ==
    /\ Running
    /\ v \notin pending
    /\ AddProtocolParameters(v)
    /\ pending' = pending \cup {v}
    /\ UNCHANGED <<versions, committed, committedSlot, highestSlot, callback>>

(* AddVersion, with the start epoch that the caller gives. *)
AddVersionHalf(v, e) ==
    /\ Running
    /\ v \in pending
    /\ pending' = pending \ {v}
    /\ versions' = Added(versions, v, e)
    /\ UpdateCommittedAPI(Added(versions, v, e), committedSlot)
    /\ UNCHANGED <<params, future, latest, committedSlot, highestSlot, callback>>

(* AddFutureVersion, on the announcement of an upgrade: it names an epoch  *)
(* after the committed ones.                                               *)
AddFutureVersion(v) ==
    /\ Running
    /\ ~SettingUp
    /\ StartEpoch[v] > EpochFromSlot(highestSlot)
    /\ versions' = Added(versions, v, StartEpoch[v])
    /\ future' = future \cup {v}
    /\ UNCHANGED <<params, latest, committed, committedSlot, highestSlot, pending, panicked, callback>>

(* A node: from its own configuration, it sets the provider up with the    *)
(* genesis version before it shares it, and adds versions as agreed.       *)
Next ==
    \/ \E s \in 0..MaxSlot : (SettingUp => pending = {}) /\ SetCommittedSlot(s)
    \/ \E v \in Version :
          \/ (SettingUp => v = GenesisVersion) /\ AddParametersHalf(v)
          \/ AddVersionHalf(v, StartEpoch[v]) \/ AddFutureVersion(v)

Spec == Init /\ [][Next]_vars

-----------------------------------------------------------------------------
(* The provider has the start epochs that the network agreed on. *)
Agreed == \A i \in DOMAIN versions : versions[i].epoch = StartEpoch[versions[i].version]

(* The version in force in an epoch, as a set expression instead of a scan *)
(* of a sorted slice: the newest of the known versions that started.       *)
InForce(e) == Max({v \in Known : StartEpoch[v] <= e})

(* CommittedAPI() is "the API for the last committed slot"                 *)
(* (api_provider.go), however the calls interleave.  When a late answer of *)
(* a node sets the committed slot back, the API is at least that of the    *)
(* slot set last and at most that of the highest slot ever set.            *)
CommittedIsInForce ==
    ~panicked /\ Agreed /\ versions # <<>> =>
        /\ InForce(EpochFromSlot(committedSlot)) <= committed
        /\ committed <= InForce(EpochFromSlot(highestSlot))

(* Whoever reads in between gets an answer: APIForSlot of the highest      *)
(* committed slot does not panic, whatever was announced, and the hash of  *)
(* all versions finds parameters or a hash of each.                        *)
ReadersSucceed ==
    ~panicked /\ Agreed /\ versions # <<>> =>
        /\ APIForSlot(highestSlot)
        /\ \A i \in DOMAIN versions : ParametersHashExists(versions[i].version)

(* Unless a call panicked, the provider is consistent between any two of   *)
(* its critical sections.  A client whose node listed another start epoch  *)
(* than the network agreed on is not judged.                               *)
ProviderIsConsistent == CommittedIsInForce /\ ReadersSucceed
=============================================================================
