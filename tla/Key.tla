-------------------------------- MODULE Key --------------------------------
(***************************************************************************)
(* LibSSH::Key and Session#get_publickey: a Key object holds a ssh_key of  *)
(* its own, which is empty, or a copy of the key of the session's server,  *)
(* or missing.  A connection with new keys may give the session another    *)
(* server key while older copies are still in use.  initialize may be      *)
(* called again, and then nothing frees what the object had.               *)
(***************************************************************************)
EXTENDS Integers, FiniteSets

CONSTANTS
    Objects,     \* Key objects
    SshKeys,     \* places for ssh_key structs
    ServerKeys,  \* what the server may identify itself by
    NULL

ASSUME NullAssumption == NULL \notin SshKeys \cup ServerKeys
ASSUME ServerKeysAssumption == ServerKeys \cap {"free", "empty"} = {}

VARIABLES
    live,       \* Key objects the program has
    key,        \* key[o]: holder->key
    content,    \* content[k]: "free", "empty" or the server key it is a copy of
    forgotten,  \* history: places initialize has overwritten the pointer to
    server,     \* the key of the session's server, or NULL
    lastHash    \* the last hash: of which key it should be and of which it is

keyVars == <<live, key, content, forgotten, server, lastHash>>

Garbage == "garbage"

KeyTypeOK ==
    /\ live \subseteq Objects
    /\ key \in [Objects -> SshKeys \cup {NULL}]
    /\ content \in [SshKeys -> {"free", "empty"} \cup ServerKeys]
    /\ forgotten \subseteq SshKeys
    /\ server \in ServerKeys \cup {NULL}
    /\ lastHash \in [of   : ServerKeys \cup {"empty", NULL},
                    hash : ServerKeys \cup {NULL, Garbage}]

KeyInit ==
    /\ live = {}
    /\ key = [o \in Objects |-> NULL]
    /\ content = [k \in SshKeys |-> "free"]
    /\ forgotten = {}
    /\ server = NULL
    /\ lastHash = [of |-> NULL, hash |-> NULL]

-----------------------------------------------------------------------------
\* Session#connect and #disconnect, as far as they matter here.
ServerChanges(s) ==
    /\ server # s
    /\ server' = s
    /\ UNCHANGED <<live, key, content, forgotten, lastHash>>

\* key_alloc
Allocate(o) ==
    /\ o \notin live
    /\ live' = live \cup {o}
    /\ key' = [key EXCEPT ![o] = NULL]
    /\ UNCHANGED <<content, forgotten, server, lastHash>>

\* ssh_key_new, or the copy ssh_get_publickey makes.
NewSshKey(o, c) ==
    \E k \in SshKeys :
        /\ content[k] = "free"
        /\ content' = [content EXCEPT ![k] = c]
        /\ key' = [key EXCEPT ![o] = k]

\* initialize, for the first time or again: holder->key is overwritten.
Initialize(o) ==
    /\ o \in live
    /\ NewSshKey(o, "empty")
    /\ forgotten' = forgotten \cup ({key[o]} \ {NULL})
    /\ UNCHANGED <<live, server, lastHash>>

\* Variants of GetPublickey: the object is made by Key.new; it gets the ssh_key
\* of an object made before.
GetPublickeyNew(o) ==
    /\ o \notin live /\ server # NULL
    /\ live' = live \cup {o}
    /\ \E j, k \in SshKeys :
          /\ j # k /\ content[j] = "free" /\ content[k] = "free"
          /\ content' = [content EXCEPT ![j] = "empty", ![k] = server]
          /\ key' = [key EXCEPT ![o] = k]
    /\ UNCHANGED <<forgotten, server, lastHash>>

GetPublickeyShared(o) ==
    /\ o \notin live /\ server # NULL
    /\ live' = live \cup {o}
    /\ \/ NewSshKey(o, server)
       \/ \E p \in live : key[p] # NULL /\ key' = [key EXCEPT ![o] = key[p]]
          /\ UNCHANGED content
    /\ UNCHANGED <<forgotten, server, lastHash>>

\* get_publickey allocates the object without initialize; if libssh fails, the
\* object has nothing and nobody gets it.
GetPublickey(o) ==
    /\ o \notin live
    /\ \/ /\ server # NULL
          /\ live' = live \cup {o}
          /\ NewSshKey(o, server)
       \/ UNCHANGED <<live, key, content>>
    /\ UNCHANGED <<forgotten, server, lastHash>>

\* key_free, when the program has dropped the object.
Free(o) ==
    /\ o \in live
    /\ live' = live \ {o}
    /\ key' = [key EXCEPT ![o] = NULL]
    /\ content' = IF key[o] = NULL THEN content ELSE [content EXCEPT ![key[o]] = "free"]
    /\ UNCHANGED <<forgotten, server, lastHash>>

Content(o) == IF key[o] = NULL THEN NULL ELSE content[key[o]]

\* sha1: ssh_get_publickey_hash fails on a key without a public part, and the
\* hash and its length, which it has not set, are used all the same (Garbage
\* stands for whatever comes of that).
Sha1(o) ==
    /\ o \in live
    /\ lastHash' = [of   |-> Content(o),
                    hash |-> IF Content(o) \in ServerKeys THEN Content(o) ELSE Garbage]
    /\ UNCHANGED <<live, key, content, forgotten, server>>

KeyNext ==
    \/ \E s \in ServerKeys \cup {NULL} : ServerChanges(s)
    \/ \E o \in Objects :
          Allocate(o) \/ Initialize(o) \/ GetPublickey(o) \/ Free(o) \/ Sha1(o)

KeySpec == KeyInit /\ [][KeyNext]_keyVars

-----------------------------------------------------------------------------
(* Properties.                                                             *)

\* Every ssh_key in use belongs to one object the program has, whichever way
\* that object was made: none is freed twice or too early, and none is lost
\* but by a second initialize.
Ownership ==
    /\ \A o, p \in Objects : key[o] = key[p] /\ key[o] # NULL => o = p
    /\ {k \in SshKeys : content[k] # "free"} = ({key[o] : o \in live} \ {NULL}) \cup forgotten
    /\ \A o \in live : key[o] \notin forgotten

\* A copy of the server's key stays what it was when the session gets another
\* server key or the objects around it are freed or initialized; only an
\* initialize of its own object puts another key in its place.
CopyIsStable ==
    [][\A o \in Objects :
          o \in live \cap live' /\ Content(o) \in ServerKeys =>
              \/ Content(o)' = Content(o)
              \/ Content(o)' = "empty" /\ key[o] \in forgotten']_keyVars

\* sha1 returns the hash of the key.
Sha1IsOfKey == lastHash.hash = lastHash.of
=============================================================================
