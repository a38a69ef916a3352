------------------------------- MODULE Vault -------------------------------
(***************************************************************************)
(* What the bastion reaches hosts with: the private keys, clear or sealed  *)
(* with the AES key of the server (pkg/crypto), and the key each host      *)
(* showed at its first connection (dynamicHostKey, pkg/bastion/ssh.go).    *)
(* Both leave the database in `config backup`, query after query and       *)
(* without a transaction, and come back in `config restore`, in one, in    *)
(* which gorm also saves the rows that are nested in the rows of the file; *)
(* it does so, too, when the first connection stores the key of a host.    *)
(***************************************************************************)
EXTENDS Integers, FiniteSets

CONSTANTS
    KeyIds, HostIds,  \* IDs of rows (bounds)
    Secrets,          \* private keys; each is made once (bound)
    FirstSecret,      \* that of the key the seeds create
    Prints,           \* the keys hosts may show
    Conns,            \* the connections to hosts (bound)
    MaxOps,           \* commands and restarts (bound)
    None

ASSUME VaultAssumption ==
    /\ KeyIds \subseteq Nat /\ HostIds \subseteq Nat /\ 1 \in KeyIds
    /\ FirstSecret \in Secrets /\ None \notin Prints /\ MaxOps \in Nat

\* How often the text of a key is sealed; there is one AES key, or none.
Text == [layers : 0..2, secret : Secrets]
Host == [ssh : KeyIds, seen : Prints \cup {None}]

\* Tables: functions on the IDs that are there.
Rows(I, R) == UNION {[S -> R] : S \in SUBSET I}
Empty == [x \in {} |-> x]
Without(T, S) == [x \in DOMAIN T \ S |-> T[x]]
With(T, x, r) == [y \in DOMAIN T \cup {x} |-> IF y = x THEN r ELSE T[y]]
Only(T, S) == [x \in DOMAIN T \cap S |-> T[x]]

\* The ID sqlite gives to the next row.
Fresh(T, I) ==
    {n \in I : /\ \A x \in DOMAIN T : x < n
               /\ \A m \in I : (\A x \in DOMAIN T : x < m) => n <= m}

VARIABLES
    aes,      \* whether the server has an AES key
    keys,     \* ssh_keys
    hosts,    \* hosts
    made,     \* the secrets made so far
    open,     \* those somebody asked to have in the clear
    returned, \* history: those of removed keys that a connection inserted again
    file,     \* the last backup, or the one being written
    step,     \* how far the backup is
    moments,  \* what the tables were from its first query to its last
    conn,     \* connections, up to the verdict on the key of the host
    ops

db == <<keys, hosts>>
fileVars == <<file, step, moments>>
vars == <<aes, keys, hosts, made, open, returned, file, step, moments, conn, ops>>

NoFile == [keys |-> Empty, under |-> Empty, hosts |-> Empty, linked |-> Empty]
NoConn == [pc |-> "new", host |-> None, key |-> None, found |-> None, shown |-> None]

TypeOK ==
    /\ aes \in BOOLEAN
    /\ keys \in Rows(KeyIds, Text) /\ hosts \in Rows(HostIds, Host)
    /\ made \subseteq Secrets /\ open \subseteq Secrets /\ returned \subseteq Secrets
    /\ file \in [keys : Rows(KeyIds, Text), under : Rows(HostIds, Host),
                hosts : Rows(HostIds, Host), linked : Rows(KeyIds, Text)]
    /\ step \in {"none", "keys", "under", "hosts", "whole"}
    /\ conn \in [Conns -> [pc : {"new", "read", "accepted", "refused", "cut"},
                          host : HostIds \cup {None},
                          key : (KeyIds \X Secrets) \cup {None},
                          found : Prints \cup {None}, shown : Prints \cup {None}]]
    /\ ops \in 0..MaxOps

Init ==
    /\ aes \in BOOLEAN
    /\ keys = With(Empty, 1, [layers |-> 0, secret |-> FirstSecret])
    /\ hosts = Empty
    /\ made = {FirstSecret} /\ open = {FirstSecret} /\ returned = {}
    /\ file = NoFile /\ step = "none" /\ moments = {}
    /\ conn = [c \in Conns |-> NoConn]
    /\ ops = 0

-----------------------------------------------------------------------------
(* pkg/crypto                                                                *)

\* SSHKeyEncrypt
Encrypt(t) == IF aes THEN [t EXCEPT !.layers = @ + 1] ELSE t

\* SSHKeyDecrypt: what is no base64 of a block's length is taken to be clear.
Decrypt(t) == IF aes /\ t.layers > 0 THEN [t EXCEPT !.layers = @ - 1] ELSE t

\* As backup and restore write a key (mutant: it is sealed as it is).
SealedAgain(t, clear) == IF clear THEN Decrypt(t) ELSE Encrypt(t)
Recoded(t, clear) == IF clear THEN Decrypt(t) ELSE Encrypt(Decrypt(t))

-----------------------------------------------------------------------------
(* Commands of the shell                                                     *)

Command == ops < MaxOps /\ ops' = ops + 1

\* The tables as they are from now on, seen by the backup that is running.
Change(K, H) ==
    /\ keys' = K /\ hosts' = H
    /\ moments' = IF step \in {"keys", "under", "hosts"} THEN moments \cup {<<K, H>>} ELSE moments

\* key create (mutant: stored before it is sealed), key import
StoredClear(k, s) ==
    Change(With(keys, k, [layers |-> 0, secret |-> s]), hosts) /\ UNCHANGED open
CreateKey(k, s) ==
    /\ Change(With(keys, k, Encrypt([layers |-> 0, secret |-> s])), hosts)
    /\ open' = IF aes THEN open ELSE open \cup {s}
ImportKey(k, s) ==
    /\ Change(With(keys, k, [layers |-> 0, secret |-> s]), hosts)
    /\ open' = open \cup {s}

NewKey ==
    /\ Command
    /\ \E k \in Fresh(keys, KeyIds), s \in Secrets \ made :
          /\ CreateKey(k, s) \/ ImportKey(k, s)
          /\ made' = made \cup {s}
    /\ UNCHANGED <<aes, returned, file, step, conn>>

\* key rm: hosts keep the ID of their key, which the next key may get.
RemoveKey(k) ==
    /\ Command /\ k \in DOMAIN keys
    /\ Change(Without(keys, {k}), hosts)
    /\ UNCHANGED <<aes, made, open, returned, file, step, conn>>

\* host create, host update --key, host rm
CreateHost(k) ==
    /\ Command /\ k \in DOMAIN keys
    /\ \E h \in Fresh(hosts, HostIds) :
          Change(keys, With(hosts, h, [ssh |-> k, seen |-> None]))
    /\ UNCHANGED <<aes, made, open, returned, file, step, conn>>

LinkKey(h, k) ==
    /\ Command /\ h \in DOMAIN hosts /\ k \in DOMAIN keys \ {hosts[h].ssh}
    /\ Change(keys, With(hosts, h, [hosts[h] EXCEPT !.ssh = k]))
    /\ UNCHANGED <<aes, made, open, returned, file, step, conn>>

RemoveHost(h) ==
    /\ Command /\ h \in DOMAIN hosts
    /\ Change(keys, Without(hosts, {h}))
    /\ UNCHANGED <<aes, made, open, returned, file, step, conn>>

-----------------------------------------------------------------------------
(* config backup                                                             *)

\* The keys, recoded; a backup that was not finished is of no use.
BackupKeys(clear) ==
    /\ Command
    /\ file' = [NoFile EXCEPT !.keys = [k \in DOMAIN keys |-> Recoded(keys[k], clear)]]
    /\ open' = IF clear THEN open \cup {keys[k].secret : k \in DOMAIN keys} ELSE open
    /\ step' = "keys" /\ moments' = {db}
    /\ UNCHANGED <<aes, keys, hosts, made, returned, conn>>

\* The hosts of these keys, nested in them.
BackupUnder ==
    /\ step = "keys" /\ step' = "under"
    /\ file' = [file EXCEPT !.under =
                   Only(hosts, {h \in DOMAIN hosts : hosts[h].ssh \in DOMAIN file.keys})]
    /\ UNCHANGED <<aes, keys, hosts, made, open, returned, moments, conn, ops>>

BackupHosts ==
    /\ step = "under" /\ step' = "hosts"
    /\ file' = [file EXCEPT !.hosts = hosts]
    /\ UNCHANGED <<aes, keys, hosts, made, open, returned, moments, conn, ops>>

\* The keys of these hosts, nested in them, as they are stored.
BackupLinked ==
    /\ step = "hosts" /\ step' = "whole"
    /\ file' = [file EXCEPT !.linked =
                   Only(keys, {file.hosts[h].ssh : h \in DOMAIN file.hosts})]
    /\ UNCHANGED <<aes, keys, hosts, made, open, returned, moments, conn, ops>>

-----------------------------------------------------------------------------
(* config restore                                                            *)

\* The hosts come first and bring their keys; FirstOrCreate passes over a key that
\* is there then.
Listed == DOMAIN file.keys \ DOMAIN file.linked

RestoredKeys(clear) ==
    [k \in DOMAIN file.linked \cup DOMAIN file.keys |->
        IF k \in Listed THEN Recoded(file.keys[k], clear) ELSE file.linked[k]]

\* A key that is created saves the hosts nested in it: one that is there gets its
\* key back, another is inserted (mutant: the table of the hosts is not emptied before).
Adopted == {h \in DOMAIN file.under : file.under[h].ssh \in Listed}
KeptHosts ==
    [h \in DOMAIN hosts \cup DOMAIN file.hosts |->
        IF h \in DOMAIN hosts THEN hosts[h] ELSE file.hosts[h]]
RestoredHosts ==
    [h \in DOMAIN file.hosts \cup Adopted |->
        IF h \notin Adopted THEN file.hosts[h]
        ELSE IF h \in DOMAIN file.hosts THEN [file.hosts[h] EXCEPT !.ssh = file.under[h].ssh]
        ELSE file.under[h]]

Restore(clear) ==
    /\ Command /\ step = "whole"
    /\ Change(RestoredKeys(clear), RestoredHosts)
    /\ open' = IF clear THEN open \cup {file.keys[k].secret : k \in Listed} ELSE open
    /\ UNCHANGED <<aes, made, returned, file, step, conn>>

-----------------------------------------------------------------------------
(* Connections to hosts                                                      *)

\* The host and its key, read once and decrypted in memory (HostByName,
\* bastionClientConfig).  A host without a key may have a password.
Opens(h) == IF hosts[h].ssh \in DOMAIN keys THEN Decrypt(keys[hosts[h].ssh]).layers = 0
            ELSE ~ aes
KeyOf(h) == LET k == hosts[h].ssh IN IF k \in DOMAIN keys THEN <<k, keys[k].secret>> ELSE None

Read(c, h) ==
    /\ conn[c].pc = "new" /\ h \in DOMAIN hosts /\ Opens(h)
    /\ conn' = [conn EXCEPT ![c].pc = "read", ![c].host = h, ![c].key = KeyOf(h),
                            ![c].found = hosts[h].seen]
    /\ UNCHANGED <<aes, keys, hosts, made, open, returned, file, step, moments, ops>>

\* A key that is nested in a host that is updated is saved first.  One that is there,
\* under its ID or its name, stays as it is; one that is gone comes back in the clear.
Gone(key) == key # None /\ key[1] \notin DOMAIN keys
PutBack(key) == With(keys, key[1], [layers |-> 0, secret |-> key[2]])

\* The host as it was read: its row gets the key that was shown, and its link is
\* written as it was; the UPDATE of a row that is gone changes nothing.
Known(c, f) ==
    [h \in DOMAIN hosts |->
        IF h # conn[c].host THEN hosts[h]
        ELSE IF conn[c].key = None THEN [hosts[h] EXCEPT !.seen = f]
        ELSE [hosts[h] EXCEPT !.seen = f, !.ssh = conn[c].key[1]]]

\* dynamicHostKey (mutants: the key is stored every time; keys are not compared).
Store(c, f) ==
    \/ /\ Gone(conn[c].key)
       /\ Change(PutBack(conn[c].key), Known(c, f))
       /\ returned' = returned \cup {conn[c].key[2]}
    \/ /\ Gone(conn[c].key) => DOMAIN keys # {}   \* a new key has its name
       /\ Change(keys, Known(c, f))
       /\ UNCHANGED returned
AnyKey(c, f) ==
    IF conn[c].found = None THEN Store(c, f) ELSE UNCHANGED <<keys, hosts, moments, returned>>
HostKeyCallback(c, f) ==
    \/ conn[c].found = None /\ Store(c, f)
    \/ conn[c].found = f /\ UNCHANGED <<keys, hosts, moments, returned>>

Dial(c, f) ==
    /\ conn[c].pc = "read"
    /\ HostKeyCallback(c, f)
    /\ conn' = [conn EXCEPT ![c].pc = "accepted", ![c].key = None, ![c].shown = f]
    /\ UNCHANGED <<aes, made, open, file, step, ops>>

\* Another key, a failed update, a host that does not answer.
DialFails(c) ==
    /\ conn[c].pc = "read"
    /\ conn' = [conn EXCEPT ![c].pc = "refused", ![c].key = None]
    /\ UNCHANGED <<aes, keys, hosts, made, open, returned, file, step, moments, ops>>

-----------------------------------------------------------------------------
\* What is lost with the process: connections, and a backup that is not whole.
Reading == {c \in Conns : conn[c].pc = "read"}
Broken(r) == [r EXCEPT !.pc = "cut", !.key = None]
Cut(C) ==
    /\ conn' = [c \in Conns |-> IF c \in C THEN Broken(conn[c]) ELSE conn[c]]
    /\ IF step = "whole" THEN UNCHANGED fileVars
       ELSE file' = NoFile /\ step' = "none" /\ moments' = {}

\* The server stops and starts, with or without the AES key.
Restart(a) ==
    /\ Command
    /\ aes' = a
    /\ Cut(Reading)
    /\ UNCHANGED <<keys, hosts, made, open, returned>>

\* A host without a key: with an AES key, the decryption of nil ends the process.
NoKeyPanic(c, h) ==
    /\ conn[c].pc = "new" /\ h \in DOMAIN hosts /\ hosts[h].ssh \notin DOMAIN keys /\ aes
    /\ Command
    /\ Cut(Reading \cup {c})
    /\ UNCHANGED <<aes, keys, hosts, made, open, returned>>

Next ==
    \/ NewKey
    \/ \E k \in KeyIds : RemoveKey(k) \/ CreateHost(k)
    \/ \E h \in HostIds : RemoveHost(h) \/ \E k \in KeyIds : LinkKey(h, k)
    \/ \E clear \in BOOLEAN : BackupKeys(clear) \/ Restore(clear)
    \/ BackupUnder \/ BackupHosts \/ BackupLinked
    \/ \E c \in Conns : \/ DialFails(c)
                        \/ \E h \in HostIds : Read(c, h) \/ NoKeyPanic(c, h)
                        \/ \E f \in Prints : Dial(c, f)
    \/ \E a \in BOOLEAN : Restart(a)

Spec == Init /\ [][Next]_vars

-----------------------------------------------------------------------------
(* Properties                                                                *)

Of(T) == {T[k] : k \in DOMAIN T}
Texts == Of(keys) \cup Of(file.keys) \cup Of(file.linked)

\* However often the AES key was switched on and off, keys were created, imported,
\* backed up with or without --decrypt and restored in between: no key is sealed
\* twice, so that a server with the AES key opens them all.
Usable == \A t \in Texts : t.layers < 2

\* A key is in the clear, in the tables or in a backup, only if somebody once asked
\* for it: by an import, the seeds, a server without AES key, or --decrypt.  The one
\* exception is a key that was removed while the first connection to its host was
\* made, which that connection inserts again as it decrypted it.
ClearOnRequest == \A t \in Texts : t.layers = 0 => t.secret \in open \cup returned

\* Whatever key a connection was accepted with, one that had found the host without
\* any brought it in; no race, restore or new host with an old ID adds another.
FirstUse ==
    \A c \in Conns : conn[c].pc = "accepted" =>
        \E d \in Conns : /\ conn[d].pc = "accepted" /\ conn[d].found = None
                         /\ conn[d].shown = conn[c].shown

\* What a restore brings back was in the tables while the backup was made, each key
\* with its secret and each host with its link and its key, and what was there all
\* the time comes back: the backup may mix the states it ran through, no more.
RestoresMoments ==
    /\ \A k \in DOMAIN keys' : \E m \in moments :
          k \in DOMAIN m[1] /\ m[1][k].secret = keys'[k].secret
    /\ \A h \in DOMAIN hosts' :
          /\ \E m \in moments : h \in DOMAIN m[2] /\ m[2][h].ssh = hosts'[h].ssh
          /\ \E m \in moments : h \in DOMAIN m[2] /\ m[2][h].seen = hosts'[h].seen
    /\ \A k \in KeyIds : (\A m \in moments : k \in DOMAIN m[1]) => k \in DOMAIN keys'
    /\ \A h \in HostIds : (\A m \in moments : h \in DOMAIN m[2]) => h \in DOMAIN hosts'
BackupSandwich == [][\A clear \in BOOLEAN : Restore(clear) => RestoresMoments]_vars

\* The key of a host, once stored, is replaced by a restore, or by a connection that
\* was at work before there was one.
KeySettles ==
    [][\A h \in DOMAIN hosts \cap DOMAIN hosts' :
          hosts[h].seen # None /\ hosts'[h].seen # hosts[h].seen =>
              \/ \E clear \in BOOLEAN : Restore(clear)
              \/ \E c \in Conns : /\ conn[c].pc = "read" /\ conn[c].found = None
                                  /\ conn[c].host = h /\ conn'[c].shown = hosts'[h].seen]_vars
=============================================================================
