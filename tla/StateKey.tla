------------------------------ MODULE StateKey ------------------------------
(***************************************************************************)
(* migrate.DeriveStateKey (migrate/crypt.go): servers that share a state    *)
(* directory derive the key of their credential blobs from the host name    *)
(* and a random salt, which the first of them writes to .key-salt.  The     *)
(* file is created (O_EXCL) and written in two steps; a server may crash    *)
(* and start again at any point.  A key stands for the salt it is derived   *)
(* from: the host name is the same, and SHA-256 is taken to be injective.   *)
(***************************************************************************)
CONSTANTS
    Servers, \* servers on one host
    Salts,   \* salts rand.Reader may return
    Absent,  \* the salt file does not exist
    Empty    \* it exists and has no content

ASSUME SaltAssumption == Absent \notin Salts /\ Empty \notin Salts /\ Absent # Empty

VARIABLES
    file,  \* the content of .key-salt, or Absent
    at,    \* at[p]: where p is inside DeriveStateKey
    salt,  \* salt[p]: its variable salt
    keys   \* keys some server has derived and may have encrypted with (history)

keyVars == <<file, at, salt, keys>>

Places == {"read", "create", "write", "reread", "derive", "running", "disabled"}

KeyTypeOK ==
    /\ file \in Salts \cup {Absent, Empty}
    /\ at \in [Servers -> Places]
    /\ salt \in [Servers -> Salts \cup {Empty}]
    /\ keys \subseteq Salts \cup {Empty}

KeyInit ==
    /\ file = Absent
    /\ at = [p \in Servers |-> "read"]
    /\ salt = [p \in Servers |-> Empty]
    /\ keys = {}

Goto(p, l) == at' = [at EXCEPT ![p] = l]

\* os.ReadFile(saltPath); without a file, a fresh random salt.
ReadSalt(p) ==
    /\ at[p] = "read"
    /\ \/ /\ file # Absent
          /\ salt' = [salt EXCEPT ![p] = file]
          /\ Goto(p, "derive")
       \/ /\ file = Absent
          /\ \E s \in Salts : salt' = [salt EXCEPT ![p] = s]
          /\ Goto(p, "create")
    /\ UNCHANGED <<file, keys>>

\* Mutant of CreateSalt: without O_EXCL the file is truncated.
CreateSaltTruncates(p) ==
    /\ at[p] = "create"
    /\ file' = Empty
    /\ Goto(p, "write")
    /\ UNCHANGED <<salt, keys>>

\* os.OpenFile(saltPath, O_CREATE|O_EXCL): fails if the file exists by now.
CreateSalt(p) ==
    /\ at[p] = "create"
    /\ \/ /\ file = Absent
          /\ file' = Empty
          /\ Goto(p, "write")
       \/ /\ file # Absent
          /\ Goto(p, "reread")
          /\ UNCHANGED file
    /\ UNCHANGED <<salt, keys>>

\* f.Write(salt); an error leaves the file as created and no key.
WriteSalt(p) ==
    /\ at[p] = "write"
    /\ \/ /\ file' = salt[p]
          /\ Goto(p, "derive")
       \/ /\ Goto(p, "disabled")
          /\ UNCHANGED file
    /\ UNCHANGED <<salt, keys>>

\* "Another process beat us; re-read."
RereadSalt(p) ==
    /\ at[p] = "reread"
    /\ salt' = [salt EXCEPT ![p] = file]
    /\ Goto(p, "derive")
    /\ UNCHANGED <<file, keys>>

\* The hash; NewServer keeps the key and begins to encrypt with it.
Derive(p) ==
    /\ at[p] = "derive"
    /\ keys' = keys \cup {salt[p]}
    /\ Goto(p, "running")
    /\ UNCHANGED <<file, salt>>

\* The server stops or crashes, and is started again.
Restart(p) ==
    /\ at[p] # "read"
    /\ Goto(p, "read")
    /\ salt' = [salt EXCEPT ![p] = Empty]
    /\ UNCHANGED <<file, keys>>

DeriveStateKey(p) == ReadSalt(p) \/ CreateSalt(p) \/ WriteSalt(p) \/ RereadSalt(p) \/ Derive(p)

KeyNext == \E p \in Servers : DeriveStateKey(p) \/ Restart(p)

KeySpec == KeyInit /\ [][KeyNext]_keyVars

-----------------------------------------------------------------------------
(* Properties.                                                              *)

\* First writer wins: a key derived from a salt, by any server at any time,
\* comes from the salt that is on disk now (crypt.go, O_EXCL).
FirstWriterWins == keys \ {Empty} \subseteq {file}
=============================================================================
