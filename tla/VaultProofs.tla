---------------------------- MODULE VaultProofs ----------------------------
(***************************************************************************)
(* The keys of Vault for every number of rows, connections and commands.   *)
(* KeysInv: wherever a key is stored it is sealed at most once, and clear  *)
(* only on request.  SeenInv: every key of a host came from a connection   *)
(* that found none.  FileInv follows a backup: what each part of the file  *)
(* holds was in the tables at one of the moments it has run through.       *)
(***************************************************************************)
EXTENDS Vault, TLAPS

FileText(T, O) ==
    \A k \in DOMAIN T : T[k].layers < 2 /\ (T[k].layers = 0 => T[k].secret \in O)

Bare == open \cup returned
KeysInv == FileText(keys, Bare) /\ FileText(file.keys, Bare) /\ FileText(file.linked, Bare)

-----------------------------------------------------------------------------
(* Tables                                                                    *)

\* A table is a function on some of the IDs.
LEMMA RowsAre ==
    ASSUME NEW I, NEW R, NEW T
    PROVE  T \in Rows(I, R) <=> DOMAIN T \subseteq I /\ T \in [DOMAIN T -> R]
BY DEF Rows

LEMMA EmptyRows ==
    ASSUME NEW I, NEW R
    PROVE  Empty \in Rows(I, R) /\ DOMAIN Empty = {}
BY RowsAre DEF Empty

LEMMA WithRows ==
    ASSUME NEW I, NEW R, NEW T \in Rows(I, R), NEW x \in I, NEW r \in R
    PROVE  With(T, x, r) \in Rows(I, R)
<1>1. DOMAIN T \subseteq I /\ T \in [DOMAIN T -> R]
  BY RowsAre
<1>2. With(T, x, r) \in [DOMAIN T \cup {x} -> R] /\ DOMAIN With(T, x, r) = DOMAIN T \cup {x}
  BY <1>1 DEF With
<1> QED BY <1>1, <1>2, RowsAre

LEMMA WithoutRows ==
    ASSUME NEW I, NEW R, NEW T \in Rows(I, R), NEW S
    PROVE  Without(T, S) \in Rows(I, R)
<1>1. DOMAIN T \subseteq I /\ T \in [DOMAIN T -> R]
  BY RowsAre
<1>2. Without(T, S) \in [DOMAIN T \ S -> R] /\ DOMAIN Without(T, S) = DOMAIN T \ S
  BY <1>1 DEF Without
<1> QED BY <1>1, <1>2, RowsAre

LEMMA OnlyRows ==
    ASSUME NEW I, NEW R, NEW T \in Rows(I, R), NEW S
    PROVE  Only(T, S) \in Rows(I, R)
<1>1. DOMAIN T \subseteq I /\ T \in [DOMAIN T -> R]
  BY RowsAre
<1>2. Only(T, S) \in [DOMAIN T \cap S -> R] /\ DOMAIN Only(T, S) = DOMAIN T \cap S
  BY <1>1 DEF Only
<1> QED BY <1>1, <1>2, RowsAre

-----------------------------------------------------------------------------
(* Texts                                                                     *)

\* Backup and restore keep the secret of a key, seal it once at most, and leave it
\* in the clear only if it was, or is asked for.
LEMMA RecodedText ==
    ASSUME aes \in BOOLEAN, NEW t \in Text, t.layers < 2, NEW clear \in BOOLEAN
    PROVE  /\ Recoded(t, clear) \in Text
           /\ Recoded(t, clear).secret = t.secret
           /\ Recoded(t, clear).layers < 2
           /\ ~ clear /\ Recoded(t, clear).layers = 0 => t.layers = 0
<1>1. t = [layers |-> t.layers, secret |-> t.secret] /\ t.layers \in 0..1 /\ t.secret \in Secrets
  BY DEF Text
<1>2. CASE clear
  BY <1>1, <1>2 DEF Recoded, Decrypt, Text
<1>3. CASE ~ clear /\ aes
  <2>1. Decrypt(t) = [layers |-> 0, secret |-> t.secret]
    BY <1>1, <1>3 DEF Decrypt
  <2>2. Recoded(t, clear) = [layers |-> 1, secret |-> t.secret]
    BY <1>1, <1>3, <2>1 DEF Recoded, Encrypt
  <2> QED BY <1>1, <1>3, <2>2 DEF Text
<1>4. CASE ~ clear /\ ~ aes
  BY <1>1, <1>4 DEF Recoded, Decrypt, Encrypt, Text
<1> QED BY <1>2, <1>3, <1>4

LEMMA TextOf ==
    ASSUME NEW T \in Rows(KeyIds, Text)
    PROVE  \A k \in DOMAIN T : T[k] \in Text /\ T[k].secret \in Secrets
<1>1. T \in [DOMAIN T -> Text]
  BY RowsAre
<1> QED BY <1>1 DEF Text

\* The same for a table of keys.
LEMMA RecodedRows ==
    ASSUME aes \in BOOLEAN, NEW T \in Rows(KeyIds, Text), NEW O, FileText(T, O),
           NEW clear \in BOOLEAN, NEW P, O \subseteq P,
           clear => \A k \in DOMAIN T : T[k].secret \in P
    PROVE  LET U == [k \in DOMAIN T |-> Recoded(T[k], clear)]
           IN  /\ U \in Rows(KeyIds, Text) /\ FileText(U, P)
               /\ \A k \in DOMAIN T : U[k].secret = T[k].secret
<1> DEFINE U == [k \in DOMAIN T |-> Recoded(T[k], clear)]
<1>1. DOMAIN T \subseteq KeyIds /\ T \in [DOMAIN T -> Text]
  BY RowsAre
<1>2. ASSUME NEW k \in DOMAIN T
      PROVE  /\ U[k] \in Text /\ U[k].secret = T[k].secret /\ U[k].layers < 2
             /\ U[k].layers = 0 => U[k].secret \in P
  <2>1. T[k] \in Text /\ T[k].layers < 2 /\ (T[k].layers = 0 => T[k].secret \in O)
    BY <1>1 DEF FileText
  <2>2. /\ U[k] \in Text
        /\ U[k].secret = T[k].secret
        /\ U[k].layers < 2
        /\ ~ clear /\ U[k].layers = 0 => T[k].layers = 0
    BY <2>1, RecodedText
  <2> QED BY <2>1, <2>2
<1>3. U \in [DOMAIN T -> Text] /\ DOMAIN U = DOMAIN T
  BY <1>2
<1>4. U \in Rows(KeyIds, Text)
  BY <1>1, <1>3, RowsAre
<1> QED BY <1>2, <1>3, <1>4 DEF FileText

-----------------------------------------------------------------------------
(* Types, and how keys are stored                                            *)

Step == TypeOK /\ KeysInv

LEMMA InitStep == Init => Step
<1> SUFFICES ASSUME Init PROVE Step
  OBVIOUS
<1> DEFINE t == [layers |-> 0, secret |-> FirstSecret]
<1>1. t \in Text /\ 1 \in KeyIds
  BY VaultAssumption DEF Text
<1>2. /\ keys \in Rows(KeyIds, Text) /\ DOMAIN keys = {1} /\ keys[1] = t
      /\ hosts \in Rows(HostIds, Host)
  <2>1. Empty \in Rows(KeyIds, Text) /\ DOMAIN Empty = {} /\ Empty \in Rows(HostIds, Host)
    BY EmptyRows
  <2>2. keys = With(Empty, 1, t) /\ hosts = Empty
    BY DEF Init
  <2>3. ASSUME NEW u \in Text
        PROVE  /\ With(Empty, 1, u) \in Rows(KeyIds, Text)
               /\ DOMAIN With(Empty, 1, u) = DOMAIN Empty \cup {1}
               /\ With(Empty, 1, u)[1] = u
    <3>1. 1 \in KeyIds
      BY VaultAssumption
    <3>2. With(Empty, 1, u) \in Rows(KeyIds, Text)
      BY <2>1, <3>1, WithRows
    <3> QED BY <3>2 DEF With
  <2> QED BY <1>1, <2>1, <2>2, <2>3
<1>3. file \in [keys : Rows(KeyIds, Text), under : Rows(HostIds, Host),
                hosts : Rows(HostIds, Host), linked : Rows(KeyIds, Text)]
  BY EmptyRows DEF Init, NoFile
<1>4. conn \in [Conns -> [pc : {"new", "read", "accepted", "refused", "cut"},
                          host : HostIds \cup {None},
                          key : (KeyIds \X Secrets) \cup {None},
                          found : Prints \cup {None}, shown : Prints \cup {None}]]
  BY DEF Init, NoConn
<1>5. TypeOK
  BY <1>2, <1>3, <1>4, VaultAssumption DEF Init, TypeOK
<1>6. FileText(keys, Bare)
  BY <1>2 DEF Init, FileText, Bare
<1>7. FileText(file.keys, Bare) /\ FileText(file.linked, Bare)
  BY EmptyRows DEF Init, NoFile, FileText
<1> QED BY <1>5, <1>6, <1>7 DEF Step, KeysInv, Bare

\* A table of keys that gets one more.
LEMMA MoreKeys ==
    ASSUME Step, NEW k \in KeyIds, NEW t \in Text, NEW O, Bare \subseteq O,
           t.layers < 2, t.layers = 0 => t.secret \in O
    PROVE  With(keys, k, t) \in Rows(KeyIds, Text) /\ FileText(With(keys, k, t), O)
<1>1. keys \in Rows(KeyIds, Text) /\ FileText(keys, Bare)
  BY DEF Step, TypeOK, KeysInv, Bare
<1>2. With(keys, k, t) \in Rows(KeyIds, Text)
  BY <1>1, WithRows
<1>3. /\ DOMAIN With(keys, k, t) = DOMAIN keys \cup {k}
      /\ With(keys, k, t)[k] = t
      /\ \A y \in DOMAIN keys \ {k} : With(keys, k, t)[y] = keys[y]
  BY DEF With
<1> QED BY <1>1, <1>2, <1>3 DEF FileText

LEMMA NewKeyStep == ASSUME Step, NewKey PROVE Step'
<1> PICK k \in Fresh(keys, KeyIds), s \in Secrets \ made :
        /\ CreateKey(k, s) \/ ImportKey(k, s)
        /\ made' = made \cup {s}
  BY DEF NewKey
<1>1. k \in KeyIds /\ s \in Secrets /\ aes \in BOOLEAN
  BY DEF Fresh, Step, TypeOK
<1>2. ops' \in 0..MaxOps
  BY VaultAssumption DEF NewKey, Command, Step, TypeOK
<1> DEFINE t == [layers |-> 0, secret |-> s]
<1>3. CASE ImportKey(k, s)
  <2>1. keys' = With(keys, k, t) /\ hosts' = hosts /\ open' = open \cup {s}
    BY <1>3 DEF ImportKey, Change
  <2>0. Bare \subseteq Bare' /\ s \in Bare'
    BY <2>1 DEF Bare, NewKey
  <2>2. t \in Text /\ t.layers = 0 /\ t.secret = s
    BY <1>1 DEF Text
  <2>3. With(keys, k, t) \in Rows(KeyIds, Text) /\ FileText(With(keys, k, t), Bare')
    BY <1>1, <2>0, <2>2, MoreKeys
  <2>4. FileText(file.keys, Bare') /\ FileText(file.linked, Bare') /\ open' \subseteq Secrets
    BY <1>1, <2>0, <2>1 DEF Step, TypeOK, KeysInv, Bare, FileText
  <2> QED BY <1>1, <1>2, <2>1, <2>3, <2>4 DEF NewKey, Step, TypeOK, KeysInv, Bare
<1>4. CASE CreateKey(k, s)
  <2>1. keys' = With(keys, k, Encrypt(t)) /\ hosts' = hosts
        /\ open' = IF aes THEN open ELSE open \cup {s}
    BY <1>4 DEF CreateKey, Change
  <2>0. Bare \subseteq Bare' /\ (~ aes => s \in Bare')
    BY <2>1 DEF Bare, NewKey
  <2>2. /\ Encrypt(t) \in Text /\ Encrypt(t).layers < 2 /\ Encrypt(t).secret = s
        /\ Encrypt(t).layers = 0 => ~ aes
    BY <1>1 DEF Text, Encrypt
  <2>3. With(keys, k, Encrypt(t)) \in Rows(KeyIds, Text) /\ FileText(With(keys, k, Encrypt(t)), Bare')
    <3>1. Bare \subseteq Bare' /\ (Encrypt(t).layers = 0 => Encrypt(t).secret \in Bare')
      BY <2>0, <2>2
    <3> HIDE DEF t
    <3> QED BY <1>1, <2>2, <3>1, MoreKeys
  <2>4. FileText(file.keys, Bare') /\ FileText(file.linked, Bare') /\ open' \subseteq Secrets
    BY <1>1, <2>0, <2>1 DEF Step, TypeOK, KeysInv, Bare, FileText
  <2> QED BY <1>1, <1>2, <2>1, <2>3, <2>4 DEF NewKey, Step, TypeOK, KeysInv, Bare
<1> QED BY <1>3, <1>4

LEMMA RemoveKeyStep == ASSUME Step, NEW k \in KeyIds, RemoveKey(k) PROVE Step'
<1>1. keys \in Rows(KeyIds, Text) /\ keys' = Without(keys, {k}) /\ hosts' = hosts
  BY DEF RemoveKey, Change, Step, TypeOK
<1>2. /\ keys' \in Rows(KeyIds, Text) /\ DOMAIN keys' = DOMAIN keys \ {k}
      /\ \A y \in DOMAIN keys \ {k} : keys'[y] = keys[y]
  BY <1>1, WithoutRows DEF Without
<1>3. FileText(keys', Bare)
  BY <1>2 DEF Step, KeysInv, Bare, FileText
<1>4. ops' \in 0..MaxOps
  BY VaultAssumption DEF RemoveKey, Command, Step, TypeOK
<1> QED BY <1>1, <1>2, <1>3, <1>4 DEF RemoveKey, Step, TypeOK, KeysInv, Bare

\* The commands that change a host.
LEMMA HostStep ==
    ASSUME Step, NEW H \in Rows(HostIds, Host), Change(keys, H), Command,
           UNCHANGED <<aes, made, open, returned, file, step, conn>>
    PROVE  Step'
<1>1. keys' = keys /\ hosts' = H
  BY DEF Change
<1>2. ops' \in 0..MaxOps
  BY VaultAssumption DEF Command, Step, TypeOK
<1> QED BY <1>1, <1>2 DEF Step, TypeOK, KeysInv, Bare

LEMMA HostCommands ==
    ASSUME Step, NEW h \in HostIds, NEW k \in KeyIds,
           CreateHost(k) \/ LinkKey(h, k) \/ RemoveHost(h)
    PROVE  Step'
<1>1. hosts \in Rows(HostIds, Host)
  BY DEF Step, TypeOK
<1>2. CASE CreateHost(k)
  <2> PICK n \in Fresh(hosts, HostIds) :
          Change(keys, With(hosts, n, [ssh |-> k, seen |-> None]))
    BY <1>2 DEF CreateHost
  <2>1. [ssh |-> k, seen |-> None] \in Host /\ n \in HostIds
    BY DEF Host, Fresh
  <2>2. With(hosts, n, [ssh |-> k, seen |-> None]) \in Rows(HostIds, Host)
    BY <1>1, <2>1, WithRows
  <2> QED BY <1>2, <2>2, HostStep DEF CreateHost
<1>3. CASE LinkKey(h, k)
  <2>1. hosts[h] \in Host
    BY <1>1, <1>3, RowsAre DEF LinkKey
  <2>2. [hosts[h] EXCEPT !.ssh = k] \in Host
    BY <2>1 DEF Host
  <2>3. With(hosts, h, [hosts[h] EXCEPT !.ssh = k]) \in Rows(HostIds, Host)
    BY <1>1, <2>2, WithRows
  <2> QED BY <1>3, <2>3, HostStep DEF LinkKey
<1>4. CASE RemoveHost(h)
  <2>1. Without(hosts, {h}) \in Rows(HostIds, Host)
    BY <1>1, WithoutRows
  <2> QED BY <1>4, <2>1, HostStep DEF RemoveHost
<1> QED BY <1>2, <1>3, <1>4

LEMMA BackupKeysStep == ASSUME Step, NEW clear \in BOOLEAN, BackupKeys(clear) PROVE Step'
<1> DEFINE U == [k \in DOMAIN keys |-> Recoded(keys[k], clear)]
<1>1. /\ keys \in Rows(KeyIds, Text) /\ FileText(keys, Bare) /\ aes \in BOOLEAN
  BY DEF Step, TypeOK, KeysInv, Bare
<1>2. /\ file' = [NoFile EXCEPT !.keys = U]
      /\ open' = IF clear THEN open \cup {keys[k].secret : k \in DOMAIN keys} ELSE open
  BY DEF BackupKeys
<1>3. U \in Rows(KeyIds, Text) /\ FileText(U, Bare')
  <2>1. Bare \subseteq Bare' /\ (clear => \A k \in DOMAIN keys : keys[k].secret \in Bare')
    BY <1>2 DEF Bare, BackupKeys
  <2> QED BY <1>1, <2>1, RecodedRows
<1>4. /\ file'.keys = U /\ file'.under = Empty /\ file'.hosts = Empty /\ file'.linked = Empty
      /\ file' = [keys |-> U, under |-> Empty, hosts |-> Empty, linked |-> Empty]
  BY <1>2 DEF NoFile
<1>5. FileText(Empty, Bare') /\ Empty \in Rows(KeyIds, Text) /\ Empty \in Rows(HostIds, Host)
  BY EmptyRows DEF FileText
<1>6. open' \subseteq Secrets
  <2>1. \A k \in DOMAIN keys : keys[k].secret \in Secrets
    BY <1>1, TextOf
  <2> QED BY <1>2, <2>1 DEF Step, TypeOK
<1>7. FileText(keys, Bare')
  BY <1>1, <1>2 DEF FileText, Bare, BackupKeys
<1>8. ops' \in 0..MaxOps
  BY VaultAssumption DEF BackupKeys, Command, Step, TypeOK
<1> HIDE DEF U
<1>9. file' \in [keys : Rows(KeyIds, Text), under : Rows(HostIds, Host),
                 hosts : Rows(HostIds, Host), linked : Rows(KeyIds, Text)]
  BY <1>3, <1>4, <1>5
<1>10. TypeOK'
  BY <1>6, <1>8, <1>9 DEF BackupKeys, Step, TypeOK
<1>11. KeysInv'
  BY <1>3, <1>4, <1>5, <1>7 DEF BackupKeys, KeysInv, Bare
<1> QED BY <1>10, <1>11 DEF Step

\* The queries that follow.
LEMMA BackupStep == ASSUME Step, BackupUnder \/ BackupHosts \/ BackupLinked PROVE Step'
<1>1. /\ keys \in Rows(KeyIds, Text) /\ hosts \in Rows(HostIds, Host)
      /\ FileText(keys, Bare) /\ FileText(file.keys, Bare) /\ FileText(file.linked, Bare)
      /\ file \in [keys : Rows(KeyIds, Text), under : Rows(HostIds, Host),
                   hosts : Rows(HostIds, Host), linked : Rows(KeyIds, Text)]
  BY DEF Step, TypeOK, KeysInv, Bare
<1>2. CASE BackupUnder
  <2> DEFINE U == Only(hosts, {h \in DOMAIN hosts : hosts[h].ssh \in DOMAIN file.keys})
  <2>1. U \in Rows(HostIds, Host)
    BY <1>1, OnlyRows
  <2>2. file' = [file EXCEPT !.under = U]
    BY <1>2 DEF BackupUnder
  <2> HIDE DEF U
  <2> QED BY <1>1, <1>2, <2>1, <2>2 DEF BackupUnder, Step, TypeOK, KeysInv, Bare
<1>3. CASE BackupHosts
  BY <1>1, <1>3 DEF BackupHosts, Step, TypeOK, KeysInv, Bare
<1>4. CASE BackupLinked
  <2> DEFINE S == {file.hosts[h].ssh : h \in DOMAIN file.hosts}
             U == Only(keys, S)
  <2>1. /\ U \in Rows(KeyIds, Text)
        /\ DOMAIN U \subseteq DOMAIN keys /\ \A k \in DOMAIN U : U[k] = keys[k]
    <3> HIDE DEF S
    <3>1. /\ Only(keys, S) \in Rows(KeyIds, Text)
          /\ DOMAIN Only(keys, S) = DOMAIN keys \cap S
          /\ \A y \in DOMAIN keys \cap S : Only(keys, S)[y] = keys[y]
      BY <1>1, OnlyRows DEF Only
    <3> QED BY <3>1
  <2>2. file' = [file EXCEPT !.linked = U]
    BY <1>4 DEF BackupLinked
  <2> HIDE DEF U
  <2>3. FileText(U, Bare)
    BY <1>1, <2>1 DEF FileText
  <2> QED BY <1>1, <1>4, <2>1, <2>2, <2>3 DEF BackupLinked, Step, TypeOK, KeysInv, Bare
<1> QED BY <1>2, <1>3, <1>4

\* What a restore makes of a file.
LEMMA Restored ==
    ASSUME Step, NEW clear \in BOOLEAN, NEW O, Bare \subseteq O,
           clear => \A k \in Listed : file.keys[k].secret \in O
    PROVE  /\ RestoredKeys(clear) \in Rows(KeyIds, Text)
           /\ FileText(RestoredKeys(clear), O)
           /\ RestoredHosts \in Rows(HostIds, Host)
<1>1. /\ file.keys \in [DOMAIN file.keys -> Text] /\ DOMAIN file.keys \subseteq KeyIds
      /\ file.linked \in [DOMAIN file.linked -> Text] /\ DOMAIN file.linked \subseteq KeyIds
      /\ file.hosts \in [DOMAIN file.hosts -> Host] /\ DOMAIN file.hosts \subseteq HostIds
      /\ file.under \in [DOMAIN file.under -> Host] /\ DOMAIN file.under \subseteq HostIds
  BY RowsAre DEF Step, TypeOK
<1>2. FileText(file.keys, Bare) /\ FileText(file.linked, Bare) /\ aes \in BOOLEAN
  BY DEF Step, TypeOK, KeysInv, Bare
<1> DEFINE D == DOMAIN file.linked \cup DOMAIN file.keys
           U == RestoredKeys(clear)
<1>3. ASSUME NEW k \in D
      PROVE  U[k] \in Text /\ U[k].layers < 2 /\ (U[k].layers = 0 => U[k].secret \in O)
  <2>1. CASE k \in Listed
    <3>1. file.keys[k] \in Text /\ file.keys[k].layers < 2
          /\ (file.keys[k].layers = 0 => file.keys[k].secret \in Bare)
      BY <1>1, <1>2, <2>1 DEF Listed, FileText
    <3>2. U[k] = Recoded(file.keys[k], clear)
      BY <2>1 DEF RestoredKeys
    <3>3. /\ U[k] \in Text /\ U[k].secret = file.keys[k].secret /\ U[k].layers < 2
          /\ ~ clear /\ U[k].layers = 0 => file.keys[k].layers = 0
      BY <1>2, <3>1, <3>2, RecodedText
    <3> QED BY <2>1, <3>1, <3>3
  <2>2. CASE k \notin Listed
    <3>1. k \in DOMAIN file.linked /\ U[k] = file.linked[k]
      BY <2>2 DEF RestoredKeys, Listed
    <3> QED BY <1>1, <1>2, <3>1 DEF FileText
  <2> QED BY <2>1, <2>2
<1>4. U \in [D -> Text] /\ DOMAIN U = D
  BY <1>3 DEF RestoredKeys
<1>5. U \in Rows(KeyIds, Text) /\ FileText(U, O)
  <2>1. D \subseteq KeyIds
    BY <1>1
  <2> HIDE DEF U, D
  <2> QED BY <1>3, <1>4, <2>1, RowsAre DEF FileText
<1>6. RestoredHosts \in Rows(HostIds, Host)
  <2> DEFINE E == DOMAIN file.hosts \cup Adopted
  <2>1. Adopted \subseteq DOMAIN file.under /\ E \subseteq HostIds
    BY <1>1 DEF Adopted
  <2>2. ASSUME NEW h \in E PROVE RestoredHosts[h] \in Host
    <3>1. h \in DOMAIN file.hosts => file.hosts[h] \in Host
      BY <1>1
    <3>2. h \in Adopted => file.under[h] \in Host
      BY <1>1, <2>1
    <3>3. h \in DOMAIN file.hosts /\ h \in Adopted =>
              [file.hosts[h] EXCEPT !.ssh = file.under[h].ssh] \in Host
      BY <3>1, <3>2 DEF Host
    <3> QED BY <3>1, <3>2, <3>3 DEF RestoredHosts
  <2>3. RestoredHosts \in [E -> Host] /\ DOMAIN RestoredHosts = E
    BY <2>2 DEF RestoredHosts
  <2> QED BY <2>1, <2>3, RowsAre
<1> QED BY <1>5, <1>6

LEMMA RestoreStep == ASSUME Step, NEW clear \in BOOLEAN, Restore(clear) PROVE Step'
<1>1. /\ keys' = RestoredKeys(clear) /\ hosts' = RestoredHosts
      /\ open' = IF clear THEN open \cup {file.keys[k].secret : k \in Listed} ELSE open
      /\ UNCHANGED <<aes, made, returned, file, step, conn>>
  BY DEF Restore, Change
<1>2. Bare \subseteq Bare' /\ (clear => \A k \in Listed : file.keys[k].secret \in Bare')
  BY <1>1 DEF Bare
<1>3. /\ keys' \in Rows(KeyIds, Text) /\ FileText(keys', Bare') /\ hosts' \in Rows(HostIds, Host)
  BY <1>1, <1>2, Restored
<1>4. open' \subseteq Secrets
  <2>1. \A k \in Listed : file.keys[k].secret \in Secrets
    <3>1. file.keys \in Rows(KeyIds, Text)
      BY DEF Step, TypeOK
    <3> QED BY <3>1, TextOf DEF Listed
  <2> QED BY <1>1, <2>1 DEF Step, TypeOK
<1>5. ops' \in 0..MaxOps
  BY VaultAssumption DEF Restore, Command, Step, TypeOK
<1>6. FileText(file.keys, Bare') /\ FileText(file.linked, Bare')
  BY <1>2 DEF Step, KeysInv, Bare, FileText
<1> QED BY <1>1, <1>3, <1>4, <1>5, <1>6 DEF Step, TypeOK, KeysInv, Bare

\* The record of a connection, and that a changed one leaves the table typed.
ConnRec == [pc : {"new", "read", "accepted", "refused", "cut"}, host : HostIds \cup {None},
            key : (KeyIds \X Secrets) \cup {None},
            found : Prints \cup {None}, shown : Prints \cup {None}]

LEMMA ConnTyped ==
    ASSUME conn \in [Conns -> ConnRec], NEW c \in Conns, NEW r \in ConnRec, NEW T,
           T = [conn EXCEPT ![c] = r]
    PROVE  T \in [Conns -> ConnRec]
OBVIOUS

\* A host row that learns its key.
LEMMA KnownRows ==
    ASSUME Step, NEW c \in Conns, NEW f \in Prints
    PROVE  /\ Known(c, f) \in Rows(HostIds, Host) /\ DOMAIN Known(c, f) = DOMAIN hosts
           /\ \A h \in DOMAIN hosts :
                 IF h = conn[c].host THEN Known(c, f)[h].seen = f ELSE Known(c, f)[h] = hosts[h]
<1>1. /\ hosts \in [DOMAIN hosts -> Host] /\ DOMAIN hosts \subseteq HostIds
      /\ conn[c].key \in (KeyIds \X Secrets) \cup {None}
  BY RowsAre DEF Step, TypeOK
<1>2. ASSUME NEW h \in DOMAIN hosts
      PROVE  /\ Known(c, f)[h] \in Host
             /\ IF h = conn[c].host THEN Known(c, f)[h].seen = f ELSE Known(c, f)[h] = hosts[h]
  <2>1. hosts[h] \in Host
    BY <1>1
  <2>2. conn[c].key # None => conn[c].key[1] \in KeyIds
    BY <1>1
  <2>3. CASE h # conn[c].host
    BY <2>1, <2>3 DEF Known
  <2>4. CASE h = conn[c].host /\ conn[c].key = None
    BY <2>1, <2>4 DEF Known, Host
  <2>5. CASE h = conn[c].host /\ conn[c].key # None
    BY <2>1, <2>2, <2>5 DEF Known, Host
  <2> QED BY <2>3, <2>4, <2>5
<1>3. Known(c, f) \in [DOMAIN hosts -> Host] /\ DOMAIN Known(c, f) = DOMAIN hosts
  BY <1>2 DEF Known
<1> QED BY <1>1, <1>2, <1>3, RowsAre

\* What an update of a host does to the tables.
LEMMA StoreTables ==
    ASSUME Step, NEW c \in Conns, NEW f \in Prints, Store(c, f), UNCHANGED open
    PROVE  /\ keys' \in Rows(KeyIds, Text) /\ FileText(keys', Bare') /\ Bare \subseteq Bare'
           /\ hosts' = Known(c, f) /\ returned' \subseteq Secrets
<1>1. /\ keys \in Rows(KeyIds, Text) /\ FileText(keys, Bare) /\ returned \subseteq Secrets
      /\ conn[c].key \in (KeyIds \X Secrets) \cup {None}
  BY DEF Step, TypeOK, KeysInv
<1>2. CASE Gone(conn[c].key) /\ Change(PutBack(conn[c].key), Known(c, f))
           /\ returned' = returned \cup {conn[c].key[2]}
  <2>1. PICK k \in KeyIds, s \in Secrets : conn[c].key = <<k, s>>
    BY <1>1, <1>2 DEF Gone
  <2> DEFINE t == [layers |-> 0, secret |-> s]
  <2>2. keys' = With(keys, k, t) /\ hosts' = Known(c, f) /\ returned' = returned \cup {s}
    BY <1>2, <2>1 DEF PutBack, Change
  <2>3. t \in Text /\ t.layers < 2 /\ Bare \subseteq Bare' /\ t.secret \in Bare'
    BY <2>2 DEF Text, Bare
  <2> HIDE DEF t
  <2>4. With(keys, k, t) \in Rows(KeyIds, Text) /\ FileText(With(keys, k, t), Bare')
    BY <2>3, MoreKeys
  <2> QED BY <1>1, <2>2, <2>3, <2>4
<1>3. CASE Change(keys, Known(c, f)) /\ UNCHANGED returned
  BY <1>1, <1>3 DEF Change, Bare
<1> QED BY <1>2, <1>3 DEF Store

LEMMA DialStep == ASSUME Step, NEW c \in Conns, NEW f \in Prints, Dial(c, f) PROVE Step'
<1>1. /\ keys' \in Rows(KeyIds, Text) /\ FileText(keys', Bare') /\ Bare \subseteq Bare'
      /\ hosts' \in Rows(HostIds, Host) /\ returned' \subseteq Secrets
  <2>1. CASE Store(c, f)
    BY <2>1, KnownRows, StoreTables DEF Dial
  <2>2. CASE UNCHANGED <<keys, hosts, moments, returned>>
    BY <2>2 DEF Dial, Step, TypeOK, KeysInv, Bare
  <2> QED BY <2>1, <2>2 DEF Dial, HostKeyCallback
<1>2. FileText(file.keys, Bare') /\ FileText(file.linked, Bare')
  BY <1>1 DEF Step, KeysInv, FileText
<1>3. conn' = [conn EXCEPT ![c].pc = "accepted", ![c].key = None, ![c].shown = f]
  BY DEF Dial
<1> DEFINE r == [conn[c] EXCEPT !.pc = "accepted", !.key = None, !.shown = f]
<1>4. conn' \in [Conns -> ConnRec]
  <2>1. conn \in [Conns -> ConnRec]
    BY DEF Step, TypeOK, ConnRec
  <2>2. r \in ConnRec
    BY <2>1 DEF ConnRec
  <2>3. conn' = [conn EXCEPT ![c] = r]
    BY <1>3, <2>1
  <2> HIDE DEF r
  <2> QED BY <2>1, <2>2, <2>3, ConnTyped
<1>5. UNCHANGED <<aes, made, open, file, step, ops>>
  BY DEF Dial
<1>6. TypeOK'
  BY <1>1, <1>4, <1>5 DEF Step, TypeOK, ConnRec
<1>7. KeysInv'
  BY <1>1, <1>2, <1>5 DEF KeysInv
<1> QED BY <1>6, <1>7 DEF Step

LEMMA BrokenIs ==
    ASSUME NEW r \in ConnRec
    PROVE  Broken(r) \in ConnRec /\ Broken(r).pc = "cut"
<1> DEFINE K == (KeyIds \X Secrets) \cup {None}
           F == Prints \cup {None}
           H == HostIds \cup {None}
<1>1. /\ r \in [pc : {"new", "read", "accepted", "refused", "cut"},
                 host : H, key : K, found : F, shown : F]
      /\ None \in K
  BY DEF ConnRec
<1> HIDE DEF K, F, H
<1>2. /\ Broken(r) \in [pc : {"new", "read", "accepted", "refused", "cut"},
                         host : H, key : K, found : F, shown : F]
      /\ Broken(r).pc = "cut"
  BY <1>1 DEF Broken
<1> QED BY <1>2 DEF ConnRec, K, F, H

LEMMA CutStep ==
    ASSUME Step, NEW C \in SUBSET Conns, Cut(C), Command, aes' \in BOOLEAN,
           UNCHANGED <<keys, hosts, made, open, returned>>
    PROVE  Step'
<1>1. conn' \in [Conns -> ConnRec]
  <2>1. conn \in [Conns -> ConnRec]
    BY DEF Step, TypeOK, ConnRec
  <2>2. \A r \in ConnRec : Broken(r) \in ConnRec
    BY BrokenIs
  <2> QED BY <2>1, <2>2 DEF Cut
<1>2. /\ file' \in [keys : Rows(KeyIds, Text), under : Rows(HostIds, Host),
                    hosts : Rows(HostIds, Host), linked : Rows(KeyIds, Text)]
      /\ step' \in {"none", "keys", "under", "hosts", "whole"}
      /\ FileText(file'.keys, Bare) /\ FileText(file'.linked, Bare)
  <2>1. CASE step = "whole"
    BY <2>1 DEF Cut, fileVars, Step, TypeOK, KeysInv, Bare
  <2>2. CASE step # "whole"
    BY <2>2, EmptyRows DEF Cut, NoFile, FileText
  <2> QED BY <2>1, <2>2
<1>3. ops' \in 0..MaxOps
  BY VaultAssumption DEF Command, Step, TypeOK
<1> QED BY <1>1, <1>2, <1>3 DEF Step, TypeOK, KeysInv, Bare, ConnRec

LEMMA StepStep == Step /\ [Next]_vars => Step'
<1> SUFFICES ASSUME Step, [Next]_vars PROVE Step'
  OBVIOUS
<1>1. CASE NewKey
  BY <1>1, NewKeyStep
<1>2. ASSUME NEW k \in KeyIds, RemoveKey(k) PROVE Step'
  BY <1>2, RemoveKeyStep
<1>3. ASSUME NEW k \in KeyIds, CreateHost(k) PROVE Step'
  <2>1. \E n \in HostIds : TRUE
    BY <1>3 DEF CreateHost, Fresh
  <2> QED BY <1>3, <2>1, HostCommands
<1>4. ASSUME NEW h \in HostIds, RemoveHost(h) PROVE Step'
  BY <1>4, VaultAssumption, HostCommands
<1>5. ASSUME NEW h \in HostIds, NEW k \in KeyIds, LinkKey(h, k) PROVE Step'
  BY <1>5, HostCommands
<1>6. ASSUME NEW clear \in BOOLEAN, BackupKeys(clear) PROVE Step'
  BY <1>6, BackupKeysStep
<1>7. CASE BackupUnder \/ BackupHosts \/ BackupLinked
  BY <1>7, BackupStep
<1>8. ASSUME NEW clear \in BOOLEAN, Restore(clear) PROVE Step'
  BY <1>8, RestoreStep
<1>9. ASSUME NEW c \in Conns, DialFails(c) PROVE Step'
  <2> DEFINE r == [conn[c] EXCEPT !.pc = "refused", !.key = None]
  <2>1. conn \in [Conns -> ConnRec]
    BY DEF Step, TypeOK, ConnRec
  <2>2. r \in ConnRec
    BY <2>1 DEF ConnRec
  <2>3. conn' = [conn EXCEPT ![c] = r]
    BY <1>9, <2>1 DEF DialFails
  <2> HIDE DEF r
  <2>4. conn' \in [Conns -> ConnRec]
    BY <2>1, <2>2, <2>3, ConnTyped
  <2> QED BY <1>9, <2>4 DEF DialFails, Step, TypeOK, KeysInv, Bare, ConnRec
<1>10. ASSUME NEW c \in Conns, NEW h \in HostIds, Read(c, h) PROVE Step'
  <2>1. hosts \in [DOMAIN hosts -> Host]
    BY RowsAre DEF Step, TypeOK
  <2>2. hosts[h].seen \in Prints \cup {None}
    BY <1>10, <2>1 DEF Read, Host
  <2>k. KeyOf(h) \in (KeyIds \X Secrets) \cup {None}
    <3>1. keys \in Rows(KeyIds, Text) /\ DOMAIN keys \subseteq KeyIds
      BY RowsAre DEF Step, TypeOK
    <3> QED BY <3>1, TextOf DEF KeyOf
  <2> DEFINE r == [conn[c] EXCEPT !.pc = "read", !.host = h, !.key = KeyOf(h),
                                  !.found = hosts[h].seen]
  <2>3. conn \in [Conns -> ConnRec]
    BY DEF Step, TypeOK, ConnRec
  <2>4. r \in ConnRec
    BY <2>2, <2>k, <2>3 DEF ConnRec
  <2>5. conn' = [conn EXCEPT ![c] = r]
    BY <1>10, <2>3 DEF Read
  <2> HIDE DEF r
  <2>6. conn' \in [Conns -> ConnRec]
    BY <2>3, <2>4, <2>5, ConnTyped
  <2> QED BY <1>10, <2>6 DEF Read, Step, TypeOK, KeysInv, Bare, ConnRec
<1>11. ASSUME NEW c \in Conns, NEW h \in HostIds, NoKeyPanic(c, h) PROVE Step'
  <2>1. Reading \cup {c} \in SUBSET Conns
    BY DEF Reading
  <2> QED BY <1>11, <2>1, CutStep DEF NoKeyPanic, Step, TypeOK
<1>12. ASSUME NEW c \in Conns, NEW f \in Prints, Dial(c, f) PROVE Step'
  BY <1>12, DialStep
<1>13. ASSUME NEW a \in BOOLEAN, Restart(a) PROVE Step'
  <2>1. Reading \in SUBSET Conns
    BY DEF Reading
  <2> QED BY <1>13, <2>1, CutStep DEF Restart, Step, TypeOK
<1>14. CASE UNCHANGED vars
  BY <1>14 DEF vars, db, fileVars, Step, TypeOK, KeysInv, Bare
<1> QED BY <1>1, <1>2, <1>3, <1>4, <1>5, <1>6, <1>7, <1>8, <1>9, <1>10, <1>11, <1>12, <1>13,
           <1>14 DEF Next

\* Whatever the commands, connections and restarts, the tables, the file and the
\* connections keep their types.
THEOREM TypeCorrect == Spec => []TypeOK
<1>1. Step => TypeOK
  BY DEF Step
<1> QED BY <1>1, InitStep, StepStep, PTL DEF Spec

\* No key is ever sealed twice, in the tables or in a backup, whenever the server
\* was started with its AES key or without.
THEOREM KeysUsable == Spec => []Usable
<1>1. Step => Usable
  BY DEF Step, KeysInv, Bare, FileText, Usable, Texts, Of
<1> QED BY <1>1, InitStep, StepStep, PTL DEF Spec

\* A key that was made sealed is in the clear nowhere unless that was asked for.
THEOREM KeysClearOnRequest == Spec => []ClearOnRequest
<1>1. Step => ClearOnRequest
  BY DEF Step, KeysInv, Bare, FileText, ClearOnRequest, Texts, Of
<1> QED BY <1>1, InitStep, StepStep, PTL DEF Spec

-----------------------------------------------------------------------------
(* The keys of hosts                                                         *)

\* The keys shown to connections that found none.
Early == {d \in Conns : conn[d].pc = "accepted" /\ conn[d].found = None}
Seen == {None} \cup {conn[d].shown : d \in Early}
SeenIn(T) == \A h \in DOMAIN T : T[h].seen \in Seen

ConnInv ==
    /\ \A c \in Conns : conn[c].pc \in {"read", "accepted"} => conn[c].found \in Seen
    /\ \A c \in Conns : conn[c].pc = "accepted" =>
          conn[c].found \in {None, conn[c].shown} /\ conn[c].shown # None
SeenInv == SeenIn(hosts) /\ SeenIn(file.hosts) /\ SeenIn(file.under) /\ ConnInv

\* What was accepted stays accepted.
LEMMA Remembered == TypeOK /\ [Next]_vars => Seen \subseteq Seen'
<1> SUFFICES ASSUME TypeOK, [Next]_vars PROVE Seen \subseteq Seen'
  OBVIOUS
<1>1. ASSUME NEW d \in Conns, conn[d].pc = "accepted" PROVE conn'[d] = conn[d]
  <2>1. ASSUME NEW C, Cut(C), d \notin C PROVE conn'[d] = conn[d]
    BY <2>1 DEF Cut
  <2>2. d \notin Reading
    BY <1>1 DEF Reading
  <2>3. ASSUME NEW c \in Conns,
               \/ DialFails(c)
               \/ \E h \in HostIds : Read(c, h)
               \/ \E f \in Prints : Dial(c, f)
        PROVE  conn'[d] = conn[d]
    BY <1>1, <2>3 DEF DialFails, Read, Dial, TypeOK
  <2>4. ASSUME NEW c \in Conns, NEW h \in HostIds, NoKeyPanic(c, h)
        PROVE  conn'[d] = conn[d]
    BY <1>1, <2>1, <2>2, <2>4 DEF NoKeyPanic
  <2>5. ASSUME NEW a \in BOOLEAN, Restart(a) PROVE conn'[d] = conn[d]
    BY <2>1, <2>2, <2>5 DEF Restart
  <2>6. \/ UNCHANGED conn
        \/ \E c \in Conns : \/ DialFails(c)
                            \/ \E h \in HostIds : Read(c, h)
                            \/ \E f \in Prints : Dial(c, f)
        \/ \E c \in Conns, h \in HostIds : NoKeyPanic(c, h)
        \/ \E a \in BOOLEAN : Restart(a)
    BY DEF Next, vars, NewKey, RemoveKey, CreateHost, RemoveHost, LinkKey, BackupKeys, Restore,
           BackupUnder, BackupHosts, BackupLinked
  <2> QED BY <2>3, <2>4, <2>5, <2>6
<1> QED BY <1>1 DEF Seen, Early

\* A step that leaves connections alone, or ends some.
LEMMA ConnKept ==
    ASSUME TypeOK, ConnInv, [Next]_vars,
           \/ UNCHANGED conn
           \/ \E C \in SUBSET Conns :
                 conn' = [c \in Conns |-> IF c \in C THEN Broken(conn[c]) ELSE conn[c]]
    PROVE  ConnInv'
<1>1. Seen \subseteq Seen'
  BY Remembered
<1>2. CASE UNCHANGED conn
  BY <1>1, <1>2 DEF ConnInv
<1>3. ASSUME NEW C \in SUBSET Conns,
             conn' = [c \in Conns |-> IF c \in C THEN Broken(conn[c]) ELSE conn[c]]
      PROVE  ConnInv'
  <2>1. ASSUME NEW c \in Conns, conn'[c].pc \in {"read", "accepted"} PROVE conn'[c] = conn[c]
    <3>1. \A q \in ConnRec : Broken(q).pc = "cut"
      BY BrokenIs
    <3>2. Broken(conn[c]).pc = "cut"
      BY <3>1 DEF TypeOK, ConnRec
    <3>3. conn'[c] = IF c \in C THEN Broken(conn[c]) ELSE conn[c]
      BY <1>3
    <3>4. CASE c \in C
      BY <2>1, <3>2, <3>3, <3>4
    <3>5. CASE c \notin C
      BY <3>3, <3>5
    <3> QED BY <3>4, <3>5
  <2> QED BY <1>1, <2>1 DEF ConnInv
<1> QED BY <1>2, <1>3

LEMMA InitSeen == Init => SeenInv
<1> SUFFICES ASSUME Init PROVE SeenInv
  OBVIOUS
<1>1. \A c \in Conns : conn[c].pc = "new"
  BY DEF Init, NoConn
<1>2. SeenIn(hosts) /\ SeenIn(file.hosts) /\ SeenIn(file.under)
  BY EmptyRows DEF Init, NoFile, SeenIn
<1> QED BY <1>1, <1>2 DEF SeenInv, ConnInv

\* The commands on keys and hosts.
LEMMA SeenCommand ==
    ASSUME TypeOK, SeenInv, [Next]_vars, UNCHANGED <<file, conn>>,
           \A h \in DOMAIN hosts' : \/ hosts'[h].seen = None
                                    \/ h \in DOMAIN hosts /\ hosts'[h].seen = hosts[h].seen
    PROVE  SeenInv'
<1>1. Seen \subseteq Seen' /\ ConnInv'
  BY Remembered, ConnKept DEF SeenInv
<1>2. None \in Seen
  BY DEF Seen
<1> QED BY <1>1, <1>2 DEF SeenInv, SeenIn

LEMMA SeenDial ==
    ASSUME Step, SeenInv, [Next]_vars, NEW c \in Conns, NEW f \in Prints, Dial(c, f)
    PROVE  SeenInv'
<1>1. Seen \subseteq Seen'
  BY Remembered DEF Step
<1>2. /\ conn' = [conn EXCEPT ![c].pc = "accepted", ![c].key = None, ![c].shown = f]
      /\ conn[c].pc = "read" /\ file' = file /\ f # None
  BY VaultAssumption DEF Dial
<1>3. conn'[c] = [conn[c] EXCEPT !.pc = "accepted", !.key = None, !.shown = f]
      /\ \A d \in Conns \ {c} : conn'[d] = conn[d]
  BY <1>2 DEF Step, TypeOK
<1>4. conn'[c].pc = "accepted" /\ conn'[c].shown = f /\ conn'[c].found = conn[c].found
  BY <1>3 DEF Step, TypeOK
<1>5. conn[c].found = None => f \in Seen'
  BY <1>4 DEF Seen, Early
<1>6. conn[c].found \in {None, f}
  BY DEF Dial, HostKeyCallback
<1>7. ConnInv'
  <2>1. ASSUME NEW d \in Conns, conn'[d].pc \in {"read", "accepted"}
        PROVE  conn'[d].found \in Seen'
    <3>1. conn[d].pc \in {"read", "accepted"} /\ conn'[d].found = conn[d].found
      BY <1>2, <1>3, <1>4, <2>1
    <3> QED BY <1>1, <3>1 DEF ConnInv, SeenInv
  <2>2. ASSUME NEW d \in Conns, conn'[d].pc = "accepted"
        PROVE  conn'[d].found \in {None, conn'[d].shown} /\ conn'[d].shown # None
    <3>1. CASE d = c
      BY <1>2, <1>4, <1>6, <3>1
    <3>2. CASE d # c
      BY <1>3, <2>2, <3>2 DEF ConnInv, SeenInv
    <3> QED BY <3>1, <3>2
  <2> QED BY <2>1, <2>2 DEF ConnInv
<1>8. SeenIn(hosts)'
  <2>1. CASE UNCHANGED hosts
    BY <1>1, <2>1 DEF SeenInv, SeenIn
  <2>2. CASE conn[c].found = None /\ Store(c, f)
    <3>1. hosts' = Known(c, f)
      BY <2>2, StoreTables DEF Dial
    <3> QED BY <1>1, <1>5, <2>2, <3>1, KnownRows DEF SeenInv, SeenIn
  <2> QED BY <2>1, <2>2 DEF Dial, HostKeyCallback
<1> QED BY <1>1, <1>2, <1>7, <1>8 DEF SeenInv, SeenIn

LEMMA SeenStep == Step /\ SeenInv /\ [Next]_vars => SeenInv'
<1> SUFFICES ASSUME Step, SeenInv, [Next]_vars PROVE SeenInv'
  OBVIOUS
<1>t. TypeOK
  BY DEF Step
<1>0. Seen \subseteq Seen' /\ None \in Seen
  BY <1>t, Remembered DEF Seen
<1>h. hosts \in [DOMAIN hosts -> Host]
  BY <1>t, RowsAre DEF TypeOK
<1>1. CASE NewKey
  BY <1>t, <1>1, SeenCommand DEF NewKey, CreateKey, ImportKey, Change
<1>2. ASSUME NEW k \in KeyIds, RemoveKey(k) PROVE SeenInv'
  BY <1>t, <1>2, SeenCommand DEF RemoveKey, Change
<1>3. ASSUME NEW k \in KeyIds, CreateHost(k) PROVE SeenInv'
  <2> PICK n \in HostIds : hosts' = With(hosts, n, [ssh |-> k, seen |-> None])
    BY <1>3 DEF CreateHost, Change, Fresh
  <2>1. \A h \in DOMAIN hosts' : \/ hosts'[h].seen = None
                                 \/ h \in DOMAIN hosts /\ hosts'[h].seen = hosts[h].seen
    BY DEF With
  <2>2. UNCHANGED <<file, conn>>
    BY <1>3 DEF CreateHost
  <2> QED BY <1>t, <2>1, <2>2, SeenCommand
<1>4. ASSUME NEW h \in HostIds, RemoveHost(h) PROVE SeenInv'
  BY <1>t, <1>4, SeenCommand DEF RemoveHost, Change, Without
<1>5. ASSUME NEW h \in HostIds, NEW k \in KeyIds, LinkKey(h, k) PROVE SeenInv'
  <2>1. hosts' = With(hosts, h, [hosts[h] EXCEPT !.ssh = k]) /\ h \in DOMAIN hosts
    BY <1>5 DEF LinkKey, Change
  <2>2. [hosts[h] EXCEPT !.ssh = k].seen = hosts[h].seen
    BY <1>h, <2>1 DEF Host
  <2>3. \A n \in DOMAIN hosts' : n \in DOMAIN hosts /\ hosts'[n].seen = hosts[n].seen
    BY <2>1, <2>2 DEF With
  <2> QED BY <1>t, <1>5, <2>3, SeenCommand DEF LinkKey
<1>6. ASSUME NEW clear \in BOOLEAN, BackupKeys(clear) PROVE SeenInv'
  <2>1. file'.hosts = Empty /\ file'.under = Empty /\ UNCHANGED <<hosts, conn>>
    BY <1>6 DEF BackupKeys, NoFile
  <2> QED BY <1>t, <1>0, <2>1, ConnKept, EmptyRows DEF SeenInv, SeenIn
<1>7. CASE BackupUnder
  <2> DEFINE S == {h \in DOMAIN hosts : hosts[h].ssh \in DOMAIN file.keys}
  <2>1. file'.under = Only(hosts, S) /\ file'.hosts = file.hosts /\ UNCHANGED <<hosts, conn>>
    BY <1>t, <1>7 DEF BackupUnder, TypeOK
  <2> HIDE DEF S
  <2>2. \A h \in DOMAIN file'.under : h \in DOMAIN hosts /\ file'.under[h] = hosts[h]
    BY <2>1 DEF Only
  <2> QED BY <1>t, <1>0, <2>1, <2>2, ConnKept DEF SeenInv, SeenIn
<1>8. CASE BackupHosts
  <2>1. file'.hosts = hosts /\ file'.under = file.under /\ UNCHANGED <<hosts, conn>>
    BY <1>t, <1>8 DEF BackupHosts, TypeOK
  <2> QED BY <1>t, <1>0, <2>1, ConnKept DEF SeenInv, SeenIn
<1>9. CASE BackupLinked
  <2>1. file'.hosts = file.hosts /\ file'.under = file.under /\ UNCHANGED <<hosts, conn>>
    BY <1>t, <1>9 DEF BackupLinked, TypeOK
  <2> QED BY <1>t, <1>0, <2>1, ConnKept DEF SeenInv, SeenIn
<1>10. ASSUME NEW clear \in BOOLEAN, Restore(clear) PROVE SeenInv'
  <2>1. hosts' = RestoredHosts /\ UNCHANGED <<file, conn>>
    BY <1>10 DEF Restore, Change
  <2>2. file.hosts \in [DOMAIN file.hosts -> Host] /\ file.under \in [DOMAIN file.under -> Host]
    BY <1>t, RowsAre DEF TypeOK
  <2>3. ASSUME NEW h \in DOMAIN hosts' PROVE hosts'[h].seen \in Seen
    <3>1. h \in DOMAIN file.hosts \/ h \in Adopted
      BY <2>1, <2>3 DEF RestoredHosts
    <3>2. Adopted \subseteq DOMAIN file.under
      BY DEF Adopted
    <3>3. h \in DOMAIN file.hosts =>
              [file.hosts[h] EXCEPT !.ssh = file.under[h].ssh].seen = file.hosts[h].seen
      BY <2>2 DEF Host
    <3> QED BY <2>1, <3>1, <3>2, <3>3 DEF RestoredHosts, SeenInv, SeenIn
  <2> QED BY <1>t, <1>0, <2>1, <2>3, ConnKept DEF SeenInv, SeenIn
<1>11. ASSUME NEW c \in Conns, DialFails(c) PROVE SeenInv'
  <2>1. \A d \in Conns : conn'[d].pc \in {"read", "accepted"} => conn'[d] = conn[d]
    BY <1>t, <1>11 DEF DialFails, TypeOK
  <2>2. ConnInv'
    BY <1>0, <2>1 DEF SeenInv, ConnInv
  <2> QED BY <1>0, <1>11, <2>2 DEF DialFails, SeenInv, SeenIn
<1>12. ASSUME NEW c \in Conns, NEW h \in HostIds, Read(c, h) PROVE SeenInv'
  <2>1. conn'[c].pc = "read" /\ conn'[c].found = hosts[h].seen /\ h \in DOMAIN hosts
    BY <1>t, <1>12 DEF Read, TypeOK
  <2>2. \A d \in Conns \ {c} : conn'[d] = conn[d]
    BY <1>t, <1>12 DEF Read, TypeOK
  <2>3. ConnInv'
    BY <1>0, <2>1, <2>2 DEF SeenInv, SeenIn, ConnInv
  <2> QED BY <1>0, <1>12, <2>3 DEF Read, SeenInv, SeenIn
<1>13. ASSUME NEW c \in Conns, NEW f \in Prints, Dial(c, f) PROVE SeenInv'
  BY <1>13, SeenDial
<1>14. ASSUME NEW C \in SUBSET Conns, Cut(C), UNCHANGED hosts PROVE SeenInv'
  <2>1. ConnInv'
    BY <1>t, <1>14, ConnKept DEF Cut, SeenInv
  <2>2. SeenIn(file.hosts)' /\ SeenIn(file.under)'
    <3>1. CASE UNCHANGED file
      BY <1>0, <3>1 DEF SeenInv, SeenIn
    <3>2. CASE file' = NoFile
      BY <3>2, EmptyRows DEF NoFile, SeenIn
    <3> QED BY <1>14, <3>1, <3>2 DEF Cut, fileVars
  <2> QED BY <1>0, <1>14, <2>1, <2>2 DEF SeenInv, SeenIn
<1>15. ASSUME NEW c \in Conns, NEW h \in HostIds, NoKeyPanic(c, h) PROVE SeenInv'
  <2>1. Reading \cup {c} \in SUBSET Conns
    BY DEF Reading
  <2> QED BY <1>14, <1>15, <2>1 DEF NoKeyPanic
<1>16. ASSUME NEW a \in BOOLEAN, Restart(a) PROVE SeenInv'
  <2>1. Reading \in SUBSET Conns
    BY DEF Reading
  <2> QED BY <1>14, <1>16, <2>1 DEF Restart
<1>17. CASE UNCHANGED vars
  BY <1>t, <1>17, <1>0, ConnKept DEF vars, fileVars, SeenInv, SeenIn
<1> QED BY <1>1, <1>2, <1>3, <1>4, <1>5, <1>6, <1>7, <1>8, <1>9, <1>10, <1>11, <1>12, <1>13,
           <1>15, <1>16, <1>17 DEF Next

\* Whatever key a connection was accepted with, one that had found none brought it.
THEOREM KeysBroughtByFirstUse == Spec => []FirstUse
<1>1. SeenInv => FirstUse
  BY DEF SeenInv, ConnInv, Seen, Early, FirstUse
<1>2. Step /\ SeenInv /\ [Next]_vars => (Step /\ SeenInv)'
  BY StepStep, SeenStep DEF Step
<1> QED BY <1>1, <1>2, InitStep, InitSeen, PTL DEF Spec

-----------------------------------------------------------------------------
(* Backup and restore                                                        *)

KeysAt(T, M) == \A k \in DOMAIN T : \E m \in M : k \in DOMAIN m[1] /\ m[1][k].secret = T[k].secret
HostsAt(T, M) == \A h \in DOMAIN T : \E m \in M : h \in DOMAIN m[2] /\ m[2][h] = T[h]

FileInv ==
    /\ KeysAt(file.keys, moments) /\ KeysAt(file.linked, moments)
    /\ HostsAt(file.hosts, moments) /\ HostsAt(file.under, moments)
    /\ step \in {"keys", "under", "hosts"} => <<keys, hosts>> \in moments
    /\ step # "none" =>
          \A k \in KeyIds : (\A m \in moments : k \in DOMAIN m[1]) => k \in DOMAIN file.keys
    /\ step \in {"hosts", "whole"} =>
          \A h \in HostIds : (\A m \in moments : h \in DOMAIN m[2]) => h \in DOMAIN file.hosts

\* The file stays what it is while the tables run on.
LEMMA FileKept ==
    ASSUME FileInv, UNCHANGED <<file, step>>, moments \subseteq moments',
           step \in {"keys", "under", "hosts"} => <<keys', hosts'>> \in moments'
    PROVE  FileInv'
<1>1. ASSUME NEW T, KeysAt(T, moments) PROVE KeysAt(T, moments')
  BY <1>1 DEF KeysAt
<1>2. ASSUME NEW T, HostsAt(T, moments) PROVE HostsAt(T, moments')
  BY <1>2 DEF HostsAt
<1>3. /\ KeysAt(file.keys, moments') /\ KeysAt(file.linked, moments')
      /\ HostsAt(file.hosts, moments') /\ HostsAt(file.under, moments')
  BY <1>1, <1>2 DEF FileInv
<1> QED BY <1>3 DEF FileInv

LEMMA FileChange ==
    ASSUME FileInv, UNCHANGED <<file, step>>, NEW K, NEW H, Change(K, H)
    PROVE  FileInv'
BY FileKept DEF Change

LEMMA InitFile == Init => FileInv
<1> SUFFICES ASSUME Init PROVE FileInv
  OBVIOUS
<1>1. /\ file.keys = Empty /\ file.linked = Empty /\ file.hosts = Empty /\ file.under = Empty
      /\ step = "none" /\ DOMAIN Empty = {}
  BY EmptyRows DEF Init, NoFile
<1> QED BY <1>1 DEF FileInv, KeysAt, HostsAt

LEMMA FileStep == Step /\ FileInv /\ [Next]_vars => FileInv'
<1> SUFFICES ASSUME Step, FileInv, [Next]_vars PROVE FileInv'
  OBVIOUS
<1>e. DOMAIN Empty = {}
  BY EmptyRows
<1>f. file \in [keys : Rows(KeyIds, Text), under : Rows(HostIds, Host),
               hosts : Rows(HostIds, Host), linked : Rows(KeyIds, Text)]
  BY DEF Step, TypeOK
<1>1. CASE NewKey
  BY <1>1, FileChange DEF NewKey, CreateKey, ImportKey
<1>2. ASSUME NEW k \in KeyIds, RemoveKey(k) \/ CreateHost(k) PROVE FileInv'
  BY <1>2, FileChange DEF RemoveKey, CreateHost
<1>3. ASSUME NEW h \in HostIds, NEW k \in KeyIds, LinkKey(h, k) PROVE FileInv'
  BY <1>3, FileChange DEF LinkKey
<1>4. ASSUME NEW h \in HostIds, RemoveHost(h) PROVE FileInv'
  BY <1>4, FileChange DEF RemoveHost
<1>5. ASSUME NEW clear \in BOOLEAN, BackupKeys(clear) PROVE FileInv'
  <2> DEFINE U == [k \in DOMAIN keys |-> Recoded(keys[k], clear)]
  <2>1. /\ file' = [NoFile EXCEPT !.keys = U] /\ moments' = {<<keys, hosts>>} /\ step' = "keys"
        /\ UNCHANGED <<keys, hosts>>
    BY <1>5 DEF BackupKeys, db
  <2>2. /\ U \in Rows(KeyIds, Text) /\ \A k \in DOMAIN keys : U[k].secret = keys[k].secret
    <3>1. keys \in Rows(KeyIds, Text) /\ FileText(keys, Bare) /\ aes \in BOOLEAN
      BY DEF Step, TypeOK, KeysInv, Bare
    <3> DEFINE P == Bare \cup {keys[k].secret : k \in DOMAIN keys}
    <3>2. Bare \subseteq P /\ \A k \in DOMAIN keys : keys[k].secret \in P
      OBVIOUS
    <3> HIDE DEF P
    <3> QED BY <3>1, <3>2, RecodedRows
  <2>3. DOMAIN U = DOMAIN keys
    OBVIOUS
  <2> HIDE DEF U
  <2>4. file'.keys = U /\ file'.linked = Empty /\ file'.hosts = Empty /\ file'.under = Empty
    BY <2>1 DEF NoFile
  <2>5. KeysAt(file.keys, moments)'
    BY <2>1, <2>2, <2>3, <2>4 DEF KeysAt
  <2>6. /\ KeysAt(file.linked, moments)' /\ HostsAt(file.hosts, moments)'
        /\ HostsAt(file.under, moments)'
    BY <1>e, <2>4 DEF KeysAt, HostsAt
  <2>7. \A k \in KeyIds : (\A m \in moments' : k \in DOMAIN m[1]) => k \in DOMAIN file'.keys
    BY <2>1, <2>3, <2>4
  <2> QED BY <2>1, <2>5, <2>6, <2>7 DEF FileInv
<1>6. CASE BackupUnder
  <2> DEFINE S == {h \in DOMAIN hosts : hosts[h].ssh \in DOMAIN file.keys}
  <2>1. /\ file' = [file EXCEPT !.under = Only(hosts, S)] /\ step = "keys" /\ step' = "under"
        /\ UNCHANGED <<keys, hosts, moments>>
    BY <1>6 DEF BackupUnder
  <2> HIDE DEF S
  <2>2. /\ file'.under = Only(hosts, S) /\ file'.keys = file.keys /\ file'.hosts = file.hosts
        /\ file'.linked = file.linked
    BY <1>f, <2>1
  <2>3. <<keys, hosts>> \in moments
    BY <2>1 DEF FileInv
  <2>4. HostsAt(file.under, moments)'
    BY <2>1, <2>2, <2>3 DEF HostsAt, Only
  <2> QED BY <2>1, <2>2, <2>3, <2>4 DEF FileInv
<1>7. CASE BackupHosts
  <2>1. /\ file'.under = file.under /\ file'.keys = file.keys /\ file'.hosts = hosts
        /\ file'.linked = file.linked /\ step = "under" /\ step' = "hosts"
        /\ UNCHANGED <<keys, hosts, moments>>
    BY <1>7, <1>f DEF BackupHosts
  <2>2. <<keys, hosts>> \in moments
    BY <2>1 DEF FileInv
  <2>3. HostsAt(file.hosts, moments)'
    BY <2>1, <2>2 DEF HostsAt
  <2>4. \A h \in HostIds : (\A m \in moments' : h \in DOMAIN m[2]) => h \in DOMAIN file'.hosts
    BY <2>1, <2>2
  <2> QED BY <2>1, <2>2, <2>3, <2>4 DEF FileInv
<1>8. CASE BackupLinked
  <2> DEFINE S == {file.hosts[h].ssh : h \in DOMAIN file.hosts}
  <2>1. /\ file' = [file EXCEPT !.linked = Only(keys, S)] /\ step = "hosts" /\ step' = "whole"
        /\ UNCHANGED <<keys, hosts, moments>>
    BY <1>8 DEF BackupLinked
  <2> HIDE DEF S
  <2>2. /\ file'.under = file.under /\ file'.keys = file.keys /\ file'.hosts = file.hosts
        /\ file'.linked = Only(keys, S)
    BY <1>f, <2>1
  <2>3. <<keys, hosts>> \in moments
    BY <2>1 DEF FileInv
  <2>4. KeysAt(file.linked, moments)'
    BY <2>1, <2>2, <2>3 DEF KeysAt, Only
  <2> QED BY <2>1, <2>2, <2>4 DEF FileInv
<1>9. ASSUME NEW clear \in BOOLEAN, Restore(clear) PROVE FileInv'
  BY <1>9, FileChange DEF Restore
<1>10. ASSUME UNCHANGED <<keys, hosts, file, step, moments>> PROVE FileInv'
  BY <1>10 DEF FileInv
<1>11. ASSUME NEW c \in Conns, NEW f \in Prints, Dial(c, f) PROVE FileInv'
  <2>1. CASE Store(c, f)
    <3>1. \E K, H : Change(K, H)
      BY <2>1 DEF Store
    <3> QED BY <1>11, <3>1, FileChange DEF Dial
  <2>2. CASE UNCHANGED <<keys, hosts, moments, returned>>
    BY <1>11, <2>2, <1>10 DEF Dial
  <2> QED BY <1>11, <2>1, <2>2 DEF Dial, HostKeyCallback
<1>12. ASSUME NEW c \in Conns, NEW h \in HostIds, Read(c, h) PROVE FileInv'
  BY <1>12, <1>10 DEF Read
<1>13. ASSUME NEW c \in Conns, DialFails(c) PROVE FileInv'
  BY <1>13, <1>10 DEF DialFails
<1>14. ASSUME NEW C, Cut(C), UNCHANGED <<keys, hosts>> PROVE FileInv'
  <2>1. CASE step = "whole"
    BY <1>10, <1>14, <2>1 DEF Cut, fileVars
  <2>2. CASE step # "whole"
    <3>1. /\ file'.keys = Empty /\ file'.linked = Empty /\ file'.hosts = Empty
          /\ file'.under = Empty /\ step' = "none"
      BY <1>14, <2>2 DEF Cut, NoFile
    <3> QED BY <1>e, <3>1 DEF FileInv, KeysAt, HostsAt
  <2> QED BY <2>1, <2>2
<1>15. ASSUME NEW c \in Conns, NEW h \in HostIds, NoKeyPanic(c, h) PROVE FileInv'
  BY <1>14, <1>15 DEF NoKeyPanic
<1>16. ASSUME NEW a \in BOOLEAN, Restart(a) PROVE FileInv'
  BY <1>14, <1>16 DEF Restart
<1>17. CASE UNCHANGED vars
  BY <1>17, <1>10 DEF vars, fileVars
<1> QED BY <1>1, <1>2, <1>3, <1>4, <1>5, <1>6, <1>7, <1>8, <1>9, <1>11, <1>12, <1>13,
           <1>15, <1>16, <1>17 DEF Next

LEMMA RestoreOfMoments ==
    ASSUME Step, FileInv, NEW clear \in BOOLEAN, Restore(clear)
    PROVE  RestoresMoments
<1>1. /\ keys' = RestoredKeys(clear) /\ hosts' = RestoredHosts /\ step = "whole"
  BY DEF Restore, Change
<1>2. /\ file.hosts \in [DOMAIN file.hosts -> Host] /\ file.under \in [DOMAIN file.under -> Host]
      /\ file.keys \in [DOMAIN file.keys -> Text] /\ FileText(file.keys, Bare) /\ aes \in BOOLEAN
  BY RowsAre DEF Step, TypeOK, KeysInv, Bare
<1>3. ASSUME NEW k \in DOMAIN keys'
      PROVE  \E m \in moments : k \in DOMAIN m[1] /\ m[1][k].secret = keys'[k].secret
  <2>1. CASE k \in Listed
    <3>1. file.keys[k] \in Text /\ file.keys[k].layers < 2 /\ k \in DOMAIN file.keys
      BY <1>2, <2>1 DEF Listed, FileText
    <3>2. keys'[k] = Recoded(file.keys[k], clear)
      BY <1>1, <2>1 DEF RestoredKeys, Listed
    <3>3. keys'[k].secret = file.keys[k].secret
      BY <1>2, <3>1, <3>2, RecodedText
    <3> QED BY <3>1, <3>3 DEF FileInv, KeysAt
  <2>2. CASE k \notin Listed
    <3>1. k \in DOMAIN file.linked /\ keys'[k] = file.linked[k]
      BY <1>1, <1>3, <2>2 DEF RestoredKeys, Listed
    <3> QED BY <3>1 DEF FileInv, KeysAt
  <2> QED BY <2>1, <2>2
<1>4. Adopted \subseteq DOMAIN file.under /\ DOMAIN hosts' = DOMAIN file.hosts \cup Adopted
  BY <1>1 DEF Adopted, RestoredHosts
<1>5. ASSUME NEW h \in DOMAIN hosts'
      PROVE  /\ \E m \in moments : h \in DOMAIN m[2] /\ m[2][h].ssh = hosts'[h].ssh
             /\ \E m \in moments : h \in DOMAIN m[2] /\ m[2][h].seen = hosts'[h].seen
  <2>1. ASSUME h \in DOMAIN file.hosts
        PROVE  \E m \in moments : h \in DOMAIN m[2] /\ m[2][h] = file.hosts[h]
    BY <2>1 DEF FileInv, HostsAt
  <2>2. ASSUME h \in Adopted
        PROVE  \E m \in moments : h \in DOMAIN m[2] /\ m[2][h] = file.under[h]
    BY <1>4, <2>2 DEF FileInv, HostsAt
  <2>3. CASE h \notin Adopted
    BY <1>1, <1>4, <2>1, <2>3 DEF RestoredHosts
  <2>4. CASE h \in Adopted /\ h \notin DOMAIN file.hosts
    BY <1>1, <1>4, <2>2, <2>4 DEF RestoredHosts
  <2>5. CASE h \in Adopted /\ h \in DOMAIN file.hosts
    <3>1. hosts'[h] = [file.hosts[h] EXCEPT !.ssh = file.under[h].ssh]
      BY <1>1, <1>4, <2>5 DEF RestoredHosts
    <3>2. hosts'[h].ssh = file.under[h].ssh /\ hosts'[h].seen = file.hosts[h].seen
      BY <1>2, <2>5, <3>1 DEF Host
    <3> QED BY <2>1, <2>2, <2>5, <3>2
  <2> QED BY <2>3, <2>4, <2>5
<1>6. ASSUME NEW k \in KeyIds, \A m \in moments : k \in DOMAIN m[1] PROVE k \in DOMAIN keys'
  <2>1. k \in DOMAIN file.keys
    BY <1>1, <1>6 DEF FileInv
  <2> QED BY <1>1, <2>1 DEF RestoredKeys
<1>7. ASSUME NEW h \in HostIds, \A m \in moments : h \in DOMAIN m[2] PROVE h \in DOMAIN hosts'
  <2>1. h \in DOMAIN file.hosts
    BY <1>1, <1>7 DEF FileInv
  <2> QED BY <1>4, <2>1
<1> QED BY <1>3, <1>5, <1>6, <1>7 DEF RestoresMoments

\* A restore brings back nothing that was not there while the backup was made, and
\* everything that was there all the time, whatever ran beside the backup.
THEOREM RestoreBetweenMoments == Spec => BackupSandwich
<1>1. Step /\ FileInv /\ [Next]_vars => (Step /\ FileInv)'
  BY StepStep, FileStep
<1>2. Step /\ FileInv /\ [Next]_vars =>
          [\A clear \in BOOLEAN : Restore(clear) => RestoresMoments]_vars
  BY RestoreOfMoments
<1> QED BY <1>1, <1>2, InitStep, InitFile, PTL DEF Spec, BackupSandwich

-----------------------------------------------------------------------------
\* The key of a host changes by a restore, or by a connection that was at work
\* before there was one.
THEOREM HostKeySettles == Spec => KeySettles
<1> DEFINE Settled ==
        \A h \in DOMAIN hosts \cap DOMAIN hosts' :
            hosts[h].seen # None /\ hosts'[h].seen # hosts[h].seen =>
                \/ \E clear \in BOOLEAN : Restore(clear)
                \/ \E c \in Conns : /\ conn[c].pc = "read" /\ conn[c].found = None
                                    /\ conn[c].host = h /\ conn'[c].shown = hosts'[h].seen
<1>1. ASSUME Step, Next PROVE Settled
  <2> SUFFICES ASSUME NEW h \in DOMAIN hosts \cap DOMAIN hosts',
                      hosts[h].seen # None, hosts'[h].seen # hosts[h].seen,
                      ~ \E clear \in BOOLEAN : Restore(clear)
               PROVE  \E c \in Conns : /\ conn[c].pc = "read" /\ conn[c].found = None
                                       /\ conn[c].host = h /\ conn'[c].shown = hosts'[h].seen
    OBVIOUS
  <2>h. hosts \in [DOMAIN hosts -> Host] /\ DOMAIN hosts \subseteq HostIds
    <3>1. hosts \in Rows(HostIds, Host)
      BY <1>1 DEF Step, TypeOK
    <3> QED BY <3>1, RowsAre
  <2>1. ASSUME NEW k \in KeyIds, CreateHost(k) PROVE FALSE
    <3> PICK n \in Fresh(hosts, HostIds) : hosts' = With(hosts, n, [ssh |-> k, seen |-> None])
      BY <2>1 DEF CreateHost, Change
    <3>1. n # h
      BY <2>h, VaultAssumption DEF Fresh
    <3> QED BY <3>1 DEF With
  <2>2. ASSUME NEW n \in HostIds, NEW k \in KeyIds, LinkKey(n, k) PROVE FALSE
    <3>1. hosts' = With(hosts, n, [hosts[n] EXCEPT !.ssh = k]) /\ n \in DOMAIN hosts
      BY <2>2 DEF LinkKey, Change
    <3>2. [hosts[n] EXCEPT !.ssh = k].seen = hosts[n].seen
      BY <2>h, <3>1 DEF Host
    <3> QED BY <3>1, <3>2 DEF With
  <2>3. ASSUME NEW n \in HostIds, RemoveHost(n) PROVE FALSE
    BY <2>3 DEF RemoveHost, Change, Without
  <2>4. ASSUME NEW c \in Conns, NEW f \in Prints, Dial(c, f)
        PROVE  /\ conn[c].pc = "read" /\ conn[c].found = None
               /\ conn[c].host = h /\ conn'[c].shown = hosts'[h].seen
    <3>1. hosts' # hosts
      OBVIOUS
    <3>2. conn[c].found = None /\ Store(c, f) /\ conn[c].pc = "read"
      BY <2>4, <3>1 DEF Dial, HostKeyCallback
    <3>3. hosts' = Known(c, f)
      BY <1>1, <2>4, <3>2, StoreTables DEF Dial
    <3>4. h = conn[c].host
      BY <1>1, <3>3, KnownRows
    <3>5. hosts'[h].seen = f
      BY <1>1, <3>3, <3>4, KnownRows
    <3>6. conn'[c].shown = f
      BY <1>1, <2>4 DEF Dial, Step, TypeOK
    <3> QED BY <3>2, <3>4, <3>5, <3>6
  <2>5. hosts' # hosts
    OBVIOUS
  <2>6. \/ \E k \in KeyIds : CreateHost(k)
        \/ \E n \in HostIds : RemoveHost(n) \/ \E k \in KeyIds : LinkKey(n, k)
        \/ \E c \in Conns, f \in Prints : Dial(c, f)
    BY <1>1, <2>5 DEF Next, NewKey, CreateKey, ImportKey, RemoveKey, Change, BackupKeys, BackupUnder,
       BackupHosts, BackupLinked, DialFails, Read, NoKeyPanic, Restart
  <2> QED BY <2>1, <2>2, <2>3, <2>4, <2>6
<1>2. Step /\ [Next]_vars => [Settled]_vars
  BY <1>1
<1>3. Step /\ [Next]_vars => Step'
  BY StepStep
<1> QED BY <1>2, <1>3, InitStep, PTL DEF Spec, KeySettles
=============================================================================
