------------------------------ MODULE Keychain ------------------------------
(***************************************************************************)
(* The keychain of authorization containers (src/pkg/service/auth.go): a   *)
(* sequence of keys, the one that was added last first.  A container is    *)
(* signed with the first key and checked with all of them.                 *)
(***************************************************************************)
EXTENDS Sequences, SequencesExt

\* pushKey, by way of AddKey, AddBinKey and GenerateKey
pushKey(keys, key) == <<key>> \o keys

\* registerKeychain: the keys of the configuration are pushed one by one, so the
\* last one of them comes to stand first
registerKeychain(configured) == Reverse(configured)

\* BinKey: the key new containers are signed with; no key is an error
BinKey(keys) == Head(keys)

\* a chain that only knows its newest key (mutant)
MatchNewestKey(keys, signedWith) == keys # << >> /\ BinKey(keys) = signedWith

\* MatchKey: whether some key of the chain made the container's signature
MatchKey(keys, signedWith) == \E i \in DOMAIN keys : keys[i] = signedWith

=============================================================================
