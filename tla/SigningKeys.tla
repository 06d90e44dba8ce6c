------------------------------ MODULE SigningKeys ------------------------------
(***************************************************************************)
(* The signing keys a process is started with: the current one, under its  *)
(* key ID, and the keys a rotation retired, published for verification     *)
(* only (main.go, internal/routes/jwks).                                   *)
(*                                                                         *)
(* Constant-level only.  A key stands for the RSA pair; Unusable is what a *)
(* file yields that is missing or holds no RSA key, NoKid an empty key ID  *)
(* or an entry that is not kid=path.                                       *)
(***************************************************************************)
EXTENDS Naturals, Sequences

CONSTANTS
  Kid,        \* key IDs
  Key,        \* RSA keys
  NoKid,      \* an empty or malformed key ID
  Unusable    \* a file that can't be read or parsed

ASSUME KeysAssumption == NoKid \notin Kid /\ Unusable \notin Key

\* A published key: jwks.Key.  An entry of JWT_PREVIOUS_KEYS may fail to be one.
PublicKey == [kid: Kid, key: Key]
Entry     == [kid: Kid \cup {NoKid}, key: Key \cup {Unusable}]

\* JWT_KID, JWT_SIGN_KEY_FILE and JWT_PREVIOUS_KEYS.
Config == [kid: Kid \cup {NoKid}, key: Key \cup {Unusable}, previous: Seq(Entry)]

\* Mutants of UsablePreviousKeys: files are not read; the current kid is not seen.
UsablePreviousKeysUnread(c) ==
  \A i \in DOMAIN c.previous : c.previous[i].kid \notin {NoKid, c.kid} /\ c.previous[i].key # c.key
UsablePreviousKeysSameKid(c) ==
  \A i \in DOMAIN c.previous : c.previous[i].kid # NoKid /\ c.previous[i].key \notin {Unusable, c.key}

(***************************************************************************)
(* ParsePreviousKeys: every entry has a key ID of its own, which is not    *)
(* the current one, and a readable key, which is not the current one.      *)
(* One entry that can't be used refuses the whole list.                    *)
(***************************************************************************)
UsablePreviousKeys(c) ==
  \A i \in DOMAIN c.previous :
    /\ c.previous[i].kid \notin {NoKid, c.kid}
    /\ \A j \in 1..(i - 1) : c.previous[j].kid # c.previous[i].kid
    /\ c.previous[i].key \notin {Unusable, c.key}

\* main's checks: a process with any other configuration exits at startup.
Starts(c) == c.kid # NoKid /\ c.key # Unusable /\ UsablePreviousKeys(c)

\* The key tokens are signed with.
SigningKey(c) == [kid |-> c.kid, key |-> c.key]

\* Mutant of Published: the previous keys are left out.
PublishedCurrent(c) == {SigningKey(c)}

\* jwks.Endpoint: the key set is fixed when the process starts.
Published(c) == {SigningKey(c)} \cup {c.previous[i] : i \in DOMAIN c.previous}
================================================================================
