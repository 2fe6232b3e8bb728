----------------------------- MODULE DeviceKeys -----------------------------
(***************************************************************************)
(* The keys of the devices (backend/security/device_keys.py), what a       *)
(* device may ask for with one (backend/security/auth.py), and the         *)
(* administration of keys (backend/api/security_api.py).  The handlers do  *)
(* not wait, so each is one step; only rotate_key commits twice, and the   *)
(* process may die between the two.  The middleware reads the body of a    *)
(* request after it has resolved the key, but decides by what it resolved: *)
(* its step is there.  Hashes are left out: a key is told by its number.   *)
(***************************************************************************)
EXTENDS Integers, FiniteSets

CONSTANTS Owners,                \* device ids
          ScopeSets,             \* the sets of scopes that are enrolled
          MaxKeys, MaxUsed       \* bounds: keys, and how far their uses are counted

ASSUME KeysAssumption ==
    /\ ScopeSets \subseteq SUBSET {"ingest", "control", "admin"} /\ {} \notin ScopeSets
    /\ MaxKeys \in Nat /\ MaxUsed \in Nat

VARIABLES
    keys,       \* device_keys: a row per key id
    rotating,   \* the key whose successor is not enrolled yet, 0 for none
    served,     \* the request that the last step let through, if any (history)
    withdrawn,  \* owners whose keys were revoked since they last got one (history)
    cut         \* owners whose rotation was cut short since they last got one (history)

keyVars == <<keys, rotating, served, withdrawn, cut>>

KeyRow == [owner : Owners, scopes : SUBSET UNION ScopeSets, live : BOOLEAN, uses : 0..MaxUsed]

Operation == {"ingest", "control", "ack", "whoami", "enroll"}

Live == {k \in DOMAIN keys : keys[k].live}

---------------------------------------------------------------------------
(* device_keys *)

Enrolled(owner, scopes) ==
    [k \in DOMAIN keys \cup {Cardinality(DOMAIN keys) + 1} |->
        IF k \in DOMAIN keys THEN keys[k]
        ELSE [owner |-> owner, scopes |-> scopes, live |-> TRUE, uses |-> 0]]

Supplied(owner) == withdrawn' = withdrawn \ {owner} /\ cut' = cut \ {owner}

Enroll(owner, scopes) ==
    /\ rotating = 0 /\ Cardinality(DOMAIN keys) < MaxKeys
    /\ keys' = Enrolled(owner, scopes)
    /\ Supplied(owner)
    /\ served' = {} /\ UNCHANGED rotating

Revoked(k) == [keys EXCEPT ![k].live = FALSE]

\* revoke_key: 404 for a key that is revoked already
RevokeKey(k) ==
    /\ rotating = 0 /\ k \in Live
    /\ keys' = Revoked(k)
    /\ withdrawn' = withdrawn \cup {keys[k].owner}
    /\ served' = {} /\ UNCHANGED <<rotating, cut>>

RevokeDevice(owner) ==
    /\ rotating = 0
    /\ keys' = [k \in DOMAIN keys |-> [keys[k] EXCEPT !.live = @ /\ keys[k].owner # owner]]
    /\ withdrawn' = withdrawn \cup {owner}
    /\ served' = {} /\ UNCHANGED <<rotating, cut>>

\* rotate_key, up to its first commit; a revoked key is rotated as well
RotateRevokes(k) ==
    /\ rotating = 0 /\ k \in DOMAIN keys /\ Cardinality(DOMAIN keys) < MaxKeys
    /\ keys' = Revoked(k)
    /\ rotating' = k
    /\ served' = {} /\ UNCHANGED <<withdrawn, cut>>

\* mutant: the successor starts with the default scope
SuccessorDefault == Enrolled(keys[rotating].owner, {"ingest"})

Successor == Enrolled(keys[rotating].owner, keys[rotating].scopes)

\* its second commit
RotateEnrolls ==
    /\ rotating # 0
    /\ keys' = Successor
    /\ Supplied(keys[rotating].owner)
    /\ rotating' = 0
    /\ served' = {}

\* the process dies between the two
RotationCut ==
    /\ rotating # 0
    /\ cut' = cut \cup {keys[rotating].owner}
    /\ rotating' = 0
    /\ served' = {} /\ UNCHANGED <<keys, withdrawn>>

---------------------------------------------------------------------------
(* api_key_middleware *)

\* _device_request_allowed
Permits(row, op, about) ==
    \/ "admin" \in row.scopes
    \/ op = "whoami"
    \/ op = "ingest" /\ "ingest" \in row.scopes /\ about = row.owner
    \/ op \in {"control", "ack"} /\ "control" \in row.scopes /\ about = row.owner

\* the rows that resolve_key looks at
Resolvable(k) == k \in Live

\* whoami resolves the key a second time
Resolutions(op) == IF op = "whoami" THEN 2 ELSE 1

Ask(k, op, about) ==
    /\ rotating = 0 /\ k \in DOMAIN keys
    /\ IF Resolvable(k)
       THEN /\ keys' = [keys EXCEPT ![k].uses =
                          IF @ + Resolutions(op) < MaxUsed THEN @ + Resolutions(op) ELSE MaxUsed]
            /\ served' = IF Permits(keys[k], op, about)
                         THEN {[key |-> k, op |-> op, about |-> about, live |-> k \in Live]}
                         ELSE {}
       ELSE keys' = keys /\ served' = {}
    /\ UNCHANGED <<rotating, withdrawn, cut>>

---------------------------------------------------------------------------
KeysInit ==
    /\ keys = << >> /\ rotating = 0 /\ served = {}
    /\ withdrawn = {} /\ cut = {}

KeysNext ==
    \/ \E o \in Owners, s \in ScopeSets : Enroll(o, s)
    \/ \E k \in DOMAIN keys : RevokeKey(k) \/ RotateRevokes(k)
    \/ \E o \in Owners : RevokeDevice(o)
    \/ RotateEnrolls \/ RotationCut
    \/ \E k \in DOMAIN keys, op \in Operation, o \in Owners : Ask(k, op, o)

KeysSpec == KeysInit /\ [][KeysNext]_keyVars

---------------------------------------------------------------------------
(* Properties *)

\* The shape of the table: rows are only added, and numbered without a gap.
KeysTypeOK ==
    /\ DOMAIN keys = 1..Cardinality(DOMAIN keys)
    /\ \A k \in DOMAIN keys : keys[k] \in KeyRow
    /\ rotating \in 0..MaxKeys

\* A device that had a key is without one for one of three causes: it was revoked,
\* a rotation of its key is between its two commits, or the process died there and
\* nobody has enrolled the device again.  The last one is an accident that the code
\* allows (device_keys.py:165-166); everything else leaves a device its key.
LockOutHasCause ==
    \A k \in DOMAIN keys :
        LET owner == keys[k].owner
        IN \/ \E j \in Live : keys[j].owner = owner
           \/ owner \in withdrawn \cup cut
           \/ rotating # 0 /\ keys[rotating].owner = owner

\* What was let through was asked for with a key that was live, and was about
\* its own device, unless the key may administer.
ServedWithinScope ==
    \A r \in served :
        /\ r.live
        /\ r.op # "whoami" /\ "admin" \notin keys[r.key].scopes => r.about = keys[r.key].owner
        /\ r.op = "enroll" => "admin" \in keys[r.key].scopes

\* A key that was revoked never comes back, and its successor by rotation has
\* its device and its scopes, no more and no less.
RotationKeepsRights ==
    [][/\ \A k \in DOMAIN keys \ Live : ~keys'[k].live
       /\ rotating # 0 /\ rotating' = 0 /\ keys' # keys =>
             LET new == keys'[Cardinality(DOMAIN keys')]
             IN new.owner = keys[rotating].owner /\ new.scopes = keys[rotating].scopes]_keyVars

\* No device is locked out but by a revocation or by a rotation cut between its
\* two commits, and neither leaves a key with more than it had.
KeysKeepRights ==
    /\ [](KeysTypeOK /\ LockOutHasCause /\ ServedWithinScope)
    /\ RotationKeepsRights
=============================================================================
