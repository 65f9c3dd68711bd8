---------------------------- MODULE LeaseKeyring ----------------------------
(***************************************************************************)
(* The keyring of the Host Resource Broker                                 *)
(* (src/src/fa3_hrb_lease_lifecycle.py, class LeaseKeyring), which         *)
(* authenticates the records of the lease ledger and the leases derived    *)
(* from them.  A MAC that checks is the id of the key that made it; a key  *)
(* id stands for its key.  The keyring has a lock of its own, so its       *)
(* methods come between the steps of whoever uses it.                      *)
(***************************************************************************)

CONSTANTS KeyIds,    \* ids of the keys the keyring may ever hold
          FirstKey   \* the key it starts with

ASSUME KeyringAssumption == FirstKey \in KeyIds

VARIABLES keys,      \* the keys it verifies with
          activeKey  \* the key it signs with

keyringVars == <<keys, activeKey>>

KeyringInit == keys = {FirstKey} /\ activeKey = FirstKey

\* A retired key signs nothing any more, but is still verified with.
MutTrusted(lease) == lease.signer \in KeyIds

\* verify: the MAC checks under a key that is not retired.
Trusted(lease) == lease.signer \in keys

\* sign: with the active key.
Signed(lease) == [lease EXCEPT !.signer = activeKey]

\* rotate: install a key and sign with it from now on.
RotateKey(k) ==
  /\ k # activeKey
  /\ keys' = keys \cup {k}
  /\ activeKey' = k

\* retire: never the active key.
RetireKey(k) ==
  /\ k \in keys \ {activeKey}
  /\ keys' = keys \ {k}
  /\ UNCHANGED activeKey
=============================================================================
