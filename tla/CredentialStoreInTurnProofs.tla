--------------------- MODULE CredentialStoreInTurnProofs ---------------------
(***************************************************************************)
(* What holds of CredentialStore where no two commands change one file at  *)
(* a time: for any number of commands and files, any order of them, other  *)
(* files' commands and this one's reads in between, and commands that fail *)
(* and die anywhere.                                                       *)
(***************************************************************************)
EXTENDS CredentialStoreProofs

(* A command that may change its file, and is not over.                    *)
Writes(p) == Active(p) /\ cmd[p].op # "use"

(* It has changed its copy, and the file is yet to be replaced.            *)
Changed(p) == pc[p] \in {"save", "rename"}

(* No two commands change one file at a time, so none changes another copy *)
(* than the file it will replace.                                          *)
OneWriter ==
  \A p, q \in Procs : Writes(p) /\ Writes(q) /\ cmd[p].file = cmd[q].file => p = q

CopyIsCurrent ==
  \A p \in Procs : pc[p] \in {"set", "own"} /\ cmd[p].op # "use" => stored[p] = file[cmd[p].file]

(* Its changes: of one host only, unless they add nothing and drop nothing.*)
ChangesItsHost ==
  \A p \in Procs : Changed(p) =>
    LET now == file[cmd[p].file]
    IN /\ cmd[p].op # "use"
       /\ \A h \in Hosts : h # host[p] \/ cmd[p].op \notin {"login", "logout"} =>
            (h \in stored[p].hosts <=> h \in now.hosts) /\ stored[p].plain[h] = now.plain[h]
       /\ cmd[p].op \in {"login", "addAliases"} =>
            /\ now.hosts \subseteq stored[p].hosts
            /\ \A h \in Hosts : now.aliases[h] \subseteq stored[p].aliases[h]
       /\ cmd[p].op = "login" => host[p] \in stored[p].hosts
       /\ cmd[p].op = "logout" => host[p] \notin stored[p].hosts /\ stored[p].plain[host[p]] = NoSecrets

(* What a login or a logout has begun is not certain until it is renamed,  *)
(* and it deletes entries of its own file and host, or those from before.  *)
Begun(p) == Changed(p) /\ cmd[p].op \in {"login", "logout"}

DeletesItsOwn ==
  \A p \in Procs :
    /\ Begun(p) => holds[cmd[p].file][host[p]] = Unsure
    /\ pc[p] = "rename" => todo[p] = <<>>
    /\ Changed(p) => \A i \in 1 .. Len(todo[p]) : LET e == todo[p][i] IN
         /\ Begun(p) /\ e[1] \in {cmd[p].file, Anyone} /\ e[2] = host[p]
         /\ cmd[p].op = "login" => e = <<cmd[p].file, host[p], Other(cmd[p].kind)>>

Alone == OneWriter /\ CopyIsCurrent /\ ChangesItsHost /\ DeletesItsOwn

GoneOrNext(p, kind) ==
  LET e == <<cmd[p].file, host[p], kind>>
  IN keyring[e] = NoSecret \/ \E i \in 1 .. Len(todo[p]) : todo[p][i] = e

(* A logout has deleted, or is yet to delete, every entry of its own.      *)
LeavesNothing ==
  \A p \in Procs : Changed(p) /\ cmd[p].op = "logout" => \A kind \in Kinds : GoneOrNext(p, kind)

Forgetting == LogoutForgets /\ LeavesNothing

(* A login has its secret in the keyring, and nothing beside it.           *)
Replaces ==
  \A p \in Procs : Changed(p) /\ cmd[p].op = "login" =>
    /\ keyring[<<cmd[p].file, host[p], cmd[p].kind>>] = p
    /\ GoneOrNext(p, Other(cmd[p].kind))
    /\ stored[p].plain[host[p]] = NoSecrets

InTheKeyring ==
  \A f \in Files, h \in Hosts : holds[f][h] \in Procs =>
    LET q == holds[f][h]
    IN /\ pc[q] # "idle"
       /\ h \in file[f].hosts /\ file[f].plain[h] = NoSecrets
       /\ keyring[<<f, h, cmd[q].kind>>] = q /\ keyring[<<f, h, Other(cmd[q].kind)>>] = NoSecret

Answering == Replaces /\ InTheKeyring

(* What was asked is one of the commands people may run.                   *)
CommandsGiven == \A p \in Procs : cmd[p] \in Commands

(* A login whose secret the keyring refuses is not allowed to write it in  *)
(* plain text.                                                             *)
NoPlaintextLogins ==
  "set" \in KeyringFails => \A c \in Commands : c.op = "login" => ~PlaintextAllowed(c)

----------------------------------------------------------------------------
(* What the steps change, by what kind of step they are.                   *)

OthersKept(p) ==
  \A q \in Procs \ {p} : /\ pc'[q] = pc[q] /\ cmd'[q] = cmd[q] /\ host'[q] = host[q]
                         /\ stored'[q] = stored[q] /\ todo'[q] = todo[q]

NothingWritten == UNCHANGED <<file, keyring, holds>>

(* A command that only reads, and one that is over.                        *)
ChangesNothing(p) ==
  \/ Refuse(p) \/ KeyringGet(p) \/ FallBack(p) \/ Resolve(p) \/ RenameFails(p) \/ Kill(p)
  \/ KeyringSetFails(p) /\ pc'[p] = "failed"
  \/ WriteBeside(p) /\ pc'[p] = "failed"

LEMMA ChangesNothingFacts ==
  ASSUME TypeOK, NEW p \in Procs, ChangesNothing(p)
  PROVE  /\ OthersKept(p) /\ NothingWritten /\ stored'[p] = stored[p]
         /\ \/ pc'[p] \in Ended
            \/ /\ cmd'[p] = cmd[p] /\ host'[p] = host[p]
               /\ pc[p] \in {"own", "old"} /\ pc'[p] \in {pc[p], "old"}
               /\ pc'[p] # pc[p] => cmd[p].op = "use"
<1>. USE DEF TypeOK, OthersKept, NothingWritten, Ended
<1>1. CASE Refuse(p)
  BY <1>1 DEF Refuse, Starts, Fail
<1>2. CASE KeyringGet(p)
  BY <1>2 DEF KeyringGet
<1>3. CASE FallBack(p)
  BY <1>3 DEF FallBack
<1>4. CASE Resolve(p)
  <2>1. /\ UNCHANGED <<file, keyring, cmd, host, stored, todo, holds>>
        /\ \E where \in {"failed", "done"} : pc' = [pc EXCEPT ![p] = where]
    BY <1>4 DEF Resolve, Fail
  <2>. QED
    BY <2>1
<1>5. CASE RenameFails(p) \/ Kill(p)
  BY <1>5 DEF RenameFails, Kill, Fail
<1>6. CASE KeyringSetFails(p) /\ pc'[p] = "failed"
  <2>1. CASE PlaintextAllowed(cmd[p])
    BY <1>6, <2>1 DEF KeyringSetFails, LogIn
  <2>2. CASE ~PlaintextAllowed(cmd[p])
    BY <1>6, <2>2 DEF KeyringSetFails, Fail
  <2>. QED
    BY <2>1, <2>2
<1>7. CASE WriteBeside(p) /\ pc'[p] = "failed"
  BY <1>7 DEF WriteBeside, Fail
<1>. QED
  BY <1>1, <1>2, <1>3, <1>4, <1>5, <1>6, <1>7 DEF ChangesNothing

(* A command that starts.  One that changes nothing but aliases and the    *)
(* default has done so at once.                                            *)
LEMMA StartFacts ==
  ASSUME TypeOK, NEW p \in Procs, Loads(p)
  PROVE  \E c \in Commands :
           /\ OthersKept(p) /\ NothingWritten
           /\ pc[p] = "idle" /\ cmd'[p] = c /\ pc'[p] \in {"set", "own", "save", "done"}
           /\ \/ Overlap \/ c.op = "use"
              \/ \A q \in Procs : Active(q) /\ cmd[q].file = c.file => cmd[q].op = "use"
           /\ pc'[p] = "own" => stored'[p] = file[c.file]
           /\ pc'[p] = "set" => c.op = "login" /\ stored'[p] = file[c.file]
           /\ pc'[p] = "save" =>
                /\ todo'[p] = <<>>
                /\ c.op \in {"addAliases", "setAliases", "removeAlias", "setDefault"}
                /\ stored'[p].hosts = file[c.file].hosts
                /\ stored'[p].plain = file[c.file].plain
                /\ c.op = "addAliases" => \A h \in Hosts :
                     file[c.file].aliases[h] \subseteq stored'[p].aliases[h]
<1>. DEFINE Aliased(s, t) == t.hosts = s.hosts /\ t.plain = s.plain
<1>1. ASSUME NEW c \in Commands, NEW h, NEW next, NEW entries,
             NEW where \in {"set", "own", "save", "done"}, Load(p, c, h, next, entries, where)
      PROVE  /\ OthersKept(p) /\ NothingWritten
             /\ pc[p] = "idle" /\ cmd'[p] = c /\ pc'[p] = where
             /\ \/ Overlap \/ c.op = "use"
                \/ \A q \in Procs : Active(q) /\ cmd[q].file = c.file => cmd[q].op = "use"
             /\ stored'[p] = next /\ todo'[p] = entries
  BY <1>1 DEF Load, Starts, OthersKept, NothingWritten, TypeOK
<1>2. \A c \in Commands : /\ c.file \in Files /\ file[c.file] \in StoredConfig
                          /\ c.host = NoHost => c.op \in {"logout", "use"}
                          /\ c.host \in Hosts \cup {NoHost}
  BY CommandsAssumption DEF Command, TypeOK
<1>3. CASE LoadLogin(p)
  BY <1>1, <1>3 DEF LoadLogin
<1>4. CASE LoadLogout(p)
  BY <1>1, <1>4 DEF LoadLogout
<1>5. CASE LoadUse(p)
  BY <1>1, <1>5 DEF LoadUse
<1>6. CASE UseUnknown(p)
  BY <1>1, <1>6 DEF UseUnknown
<1>7. \A s \in StoredConfig : \A h, aliases :
        LET t == WithAliases(s, h, aliases)
        IN /\ Aliased(s, t)
           /\ \A g \in Hosts : g # h => t.aliases[g] = s.aliases[g]
           /\ h \in Hosts => t.aliases[h] = aliases
  BY DEF WithAliases, StoredConfig
<1>8. CASE AddHostAliases(p)
  <2>1. PICK c \in Commands :
          /\ c.op = "addAliases"
          /\ Load(p, c, c.host, WithAliases(file[c.file], c.host, file[c.file].aliases[c.host] \cup c.aliases),
                  <<>>, "save")
    BY <1>8 DEF AddHostAliases
  <2>2. c.host \in Hosts
    BY <1>2, <2>1
  <2>. DEFINE t == WithAliases(file[c.file], c.host, file[c.file].aliases[c.host] \cup c.aliases)
  <2>3. Aliased(file[c.file], t) /\ \A h \in Hosts : file[c.file].aliases[h] \subseteq t.aliases[h]
    BY <1>2, <1>7, <2>2
  <2>. HIDE DEF t
  <2>4. Load(p, c, c.host, t, <<>>, "save")
    BY <2>1 DEF t
  <2>. QED
    BY <1>1, <2>1, <2>3, <2>4
<1>9. CASE SetHostAliases(p)
  <2>1. PICK c \in Commands :
          c.op = "setAliases" /\ Load(p, c, c.host, WithAliases(file[c.file], c.host, c.aliases), <<>>, "save")
    BY <1>9 DEF SetHostAliases
  <2>. DEFINE t == WithAliases(file[c.file], c.host, c.aliases)
  <2>2. Aliased(file[c.file], t)
    BY <1>2, <1>7
  <2>. HIDE DEF t
  <2>3. Load(p, c, c.host, t, <<>>, "save")
    BY <2>1 DEF t
  <2>. QED
    BY <1>1, <2>1, <2>2, <2>3
<1>10. CASE RemoveHostAlias(p)
  <2>1. PICK c \in Commands :
          /\ c.op = "removeAlias"
          /\ Load(p, c, c.host, WithAliases(file[c.file], c.host, file[c.file].aliases[c.host] \ c.aliases),
                  <<>>, "save")
    BY <1>10 DEF RemoveHostAlias
  <2>. DEFINE t == WithAliases(file[c.file], c.host, file[c.file].aliases[c.host] \ c.aliases)
  <2>2. Aliased(file[c.file], t)
    BY <1>2, <1>7
  <2>. HIDE DEF t
  <2>3. Load(p, c, c.host, t, <<>>, "save")
    BY <2>1 DEF t
  <2>. QED
    BY <1>1, <2>1, <2>2, <2>3
<1>11. CASE SetDefaultHost(p)
  <2>1. PICK c \in Commands :
          c.op = "setDefault" /\ Load(p, c, c.host, [file[c.file] EXCEPT !.default = c.host], <<>>, "save")
    BY <1>11 DEF SetDefaultHost
  <2>. DEFINE t == [file[c.file] EXCEPT !.default = c.host]
  <2>2. Aliased(file[c.file], t)
    BY <1>2 DEF StoredConfig
  <2>. HIDE DEF t
  <2>3. Load(p, c, c.host, t, <<>>, "save")
    BY <2>1 DEF t
  <2>. QED
    BY <1>1, <2>1, <2>2, <2>3
<1>. QED
  BY <1>3, <1>4, <1>5, <1>6, <1>8, <1>9, <1>10, <1>11 DEF Loads

(* A command that writes.                                                  *)
LEMMA WriterFacts ==
  ASSUME IInv, NEW p \in Procs, Active(p)
  PROVE  /\ host[p] \in Hosts /\ cmd[p].file \in Files /\ cmd[p].kind \in Kinds
         /\ stored[p] \in StoredConfig /\ file[cmd[p].file] \in StoredConfig
         /\ pc[p] = "set" => cmd[p].op = "login" /\ cmd[p].host = host[p]
  BY DEF IInv, HostIsKnown, TypeOK, Command, LoginWasChecked

HoldUnsure(p) == holds' = [holds EXCEPT ![cmd[p].file] = [@ EXCEPT ![host[p]] = Unsure]]

LEMMA LogoutFacts ==
  ASSUME IInv, NEW p \in Procs, Logout(p)
  PROVE  /\ OthersKept(p) /\ UNCHANGED <<file, keyring, cmd, host>>
         /\ pc[p] = "own" /\ cmd[p].op = "logout" /\ pc'[p] = "save"
         /\ HoldUnsure(p)
         /\ stored'[p].hosts = stored[p].hosts \ {host[p]}
         /\ stored'[p].plain = [stored[p].plain EXCEPT ![host[p]] = NoSecrets]
         /\ todo'[p] = Forgotten(p)
<1>1. PICK next : stored' = [stored EXCEPT ![p] = LoggedOut(stored[p], host[p], next)]
  BY DEF Logout
<1>2. /\ LoggedOut(stored[p], host[p], next).hosts = stored[p].hosts \ {host[p]}
      /\ LoggedOut(stored[p], host[p], next).plain = [stored[p].plain EXCEPT ![host[p]] = NoSecrets]
  BY DEF LoggedOut
<1>. QED
  BY <1>1, <1>2 DEF Logout, HoldUnsure, OthersKept, IInv, TypeOK

LogsIn(p) == KeyringSet(p) \/ (KeyringSetFails(p) /\ pc'[p] # "failed")

LEMMA LogInFacts ==
  ASSUME IInv, NEW p \in Procs, LogsIn(p)
  PROVE  /\ OthersKept(p) /\ UNCHANGED <<file, cmd, host>>
         /\ pc[p] = "set" /\ cmd[p].op = "login" /\ pc'[p] = "save"
         /\ HoldUnsure(p)
         /\ stored'[p].hosts = stored[p].hosts \cup {host[p]}
         /\ \A h \in Hosts : stored[p].aliases[h] \subseteq stored'[p].aliases[h]
         /\ \E secrets : /\ stored'[p].plain = [stored[p].plain EXCEPT ![host[p]] = secrets]
                         /\ KeyringSet(p) => secrets = NoSecrets
         /\ todo'[p] = <<<<cmd[p].file, host[p], Other(cmd[p].kind)>>>>
         /\ \/ keyring' = [keyring EXCEPT ![<<cmd[p].file, host[p], cmd[p].kind>>] = p]
            \/ ~KeyringSet(p) /\ keyring' = keyring /\ "set" \in KeyringFails /\ PlaintextAllowed(cmd[p])
<1>1. pc[p] = "set" /\ cmd[p].op = "login" /\ cmd[p].host = host[p] /\ Active(p)
  BY DEF LogsIn, KeyringSet, KeyringSetFails, IInv, LoginWasChecked, Active, Ended
<1>2. host[p] \in Hosts /\ stored[p] \in StoredConfig
  BY <1>1, WriterFacts
<1>3. ASSUME NEW secrets
      PROVE  /\ LoggedIn(stored[p], cmd[p], secrets).hosts = stored[p].hosts \cup {host[p]}
             /\ \A h \in Hosts :
                  stored[p].aliases[h] \subseteq LoggedIn(stored[p], cmd[p], secrets).aliases[h]
             /\ LoggedIn(stored[p], cmd[p], secrets).plain
                  = [stored[p].plain EXCEPT ![host[p]] = secrets]
  BY <1>1, <1>2 DEF LoggedIn, StoredConfig
<1>4. PICK secrets : /\ LogIn(p, secrets)
                     /\ KeyringSet(p) => secrets = NoSecrets
  <2>1. CASE KeyringSet(p)
    BY <2>1 DEF KeyringSet
  <2>2. CASE ~KeyringSet(p)
    <3>1. KeyringSetFails(p) /\ pc'[p] # "failed"
      BY <2>2 DEF LogsIn
    <3>2. PlaintextAllowed(cmd[p])
      BY <3>1 DEF KeyringSetFails, Fail, IInv, TypeOK
    <3>. QED
      BY <2>2, <3>1, <3>2 DEF KeyringSetFails
  <2>. QED
    BY <2>1, <2>2
<1>5. stored'[p] = LoggedIn(stored[p], cmd[p], secrets)
  BY <1>4 DEF LogIn, IInv, TypeOK
<1>6. /\ OthersKept(p) /\ UNCHANGED <<file, cmd, host>> /\ pc'[p] = "save" /\ HoldUnsure(p)
      /\ todo'[p] = <<<<cmd[p].file, host[p], Other(cmd[p].kind)>>>>
  BY <1>4 DEF LogIn, HoldUnsure, OthersKept, CredentialKey, IInv, TypeOK
<1>7. \/ keyring' = [keyring EXCEPT ![<<cmd[p].file, host[p], cmd[p].kind>>] = p]
      \/ ~KeyringSet(p) /\ keyring' = keyring /\ "set" \in KeyringFails /\ PlaintextAllowed(cmd[p])
  <2>1. CASE KeyringSet(p)
    BY <2>1 DEF KeyringSet, CredentialKey
  <2>2. CASE ~KeyringSet(p)
    BY <1>6, <2>2 DEF LogsIn, KeyringSetFails, Fail, IInv, TypeOK
  <2>. QED
    BY <2>1, <2>2
<1>8. /\ stored'[p].hosts = stored[p].hosts \cup {host[p]}
      /\ \A h \in Hosts : stored[p].aliases[h] \subseteq stored'[p].aliases[h]
      /\ stored'[p].plain = [stored[p].plain EXCEPT ![host[p]] = secrets]
  BY <1>3, <1>5
<1>. HIDE DEF IInv
<1>. QED
  BY <1>1, <1>4, <1>6, <1>7, <1>8

LEMMA DeleteFacts ==
  ASSUME IInv, NEW p \in Procs, KeyringDelete(p)
  PROVE  /\ OthersKept(p) /\ UNCHANGED <<file, pc, cmd, host, stored, holds>>
         /\ pc[p] = "save" /\ todo[p] # <<>> /\ todo'[p] = Tail(todo[p])
         /\ \/ keyring' = [keyring EXCEPT ![todo[p][1]] = NoSecret]
            \/ "delete" \in KeyringFails /\ keyring' = keyring
         /\ Len(todo[p]) \in Nat \ {0} /\ Len(todo'[p]) = Len(todo[p]) - 1
         /\ \A i \in 1 .. Len(todo'[p]) : todo'[p][i] = todo[p][i + 1]
<1>1. todo[p] \in Seq(Entries) /\ todo[p] # <<>>
  BY DEF KeyringDelete, IInv, TypeOK
<1>2. Head(todo[p]) = todo[p][1]
  BY <1>1
<1>3. todo'[p] = Tail(todo[p])
  BY DEF KeyringDelete, IInv, TypeOK
<1>4. /\ Len(todo[p]) \in Nat \ {0} /\ Len(todo'[p]) = Len(todo[p]) - 1
      /\ \A i \in 1 .. Len(todo'[p]) : todo'[p][i] = todo[p][i + 1]
  BY <1>1, <1>3, HeadTailProperties, LenProperties, EmptySeq
<1>. QED
  BY <1>2, <1>3, <1>4 DEF KeyringDelete, OthersKept, IInv, TypeOK

(* The file beside is written, and waits to be renamed.                    *)
WroteBeside(p) == WriteBeside(p) /\ pc'[p] # "failed"

LEMMA WroteBesideFacts ==
  ASSUME TypeOK, NEW p \in Procs, WroteBeside(p)
  PROVE  /\ OthersKept(p) /\ NothingWritten /\ UNCHANGED <<cmd, host, stored, todo>>
         /\ pc[p] = "save" /\ todo[p] = <<>> /\ pc'[p] = "rename"
  BY DEF WroteBeside, WriteBeside, Fail, OthersKept, NothingWritten, TypeOK

LEMMA RenameFacts ==
  ASSUME TypeOK, NEW p \in Procs, Rename(p)
  PROVE  /\ OthersKept(p) /\ UNCHANGED <<keyring, cmd, host, stored, todo>>
         /\ pc[p] = "rename" /\ pc'[p] = "done"
         /\ file' = [file EXCEPT ![cmd[p].file] = stored[p]]
         /\ holds' = [holds EXCEPT ![cmd[p].file] = [@ EXCEPT ![host[p]] = HeldAfter(p)]]
  BY DEF Rename, OthersKept, TypeOK

LEMMA StepKinds ==
  ASSUME NEW p \in Procs, Step(p)
  PROVE  \/ Loads(p) \/ ChangesNothing(p) \/ Logout(p) \/ LogsIn(p) \/ KeyringDelete(p)
         \/ WroteBeside(p) \/ Rename(p)
<1>1. CASE Loads(p)
  BY <1>1
<1>2. CASE Refuse(p) \/ KeyringGet(p) \/ FallBack(p) \/ Resolve(p) \/ RenameFails(p) \/ Kill(p)
  BY <1>2 DEF ChangesNothing
<1>3. CASE KeyringSet(p) \/ KeyringSetFails(p) \/ WriteBeside(p)
  BY <1>3 DEF ChangesNothing, LogsIn, WroteBeside
<1>. QED
  BY <1>1, <1>2, <1>3 DEF Step, Loads

----------------------------------------------------------------------------
(* A step of one command leaves alone what another is about to replace.    *)

LEMMA OthersStay ==
  ASSUME IInv, NEW p \in Procs, Step(p)
  PROVE  OthersKept(p)
  BY StepKinds, StartFacts, ChangesNothingFacts, LogoutFacts, LogInFacts, DeleteFacts,
     WroteBesideFacts, RenameFacts DEF IInv

(* The steps that write are those of a command that changes its file.      *)
LEMMA WritersWrite ==
  ASSUME IInv, Alone, NEW p \in Procs,
         Logout(p) \/ LogsIn(p) \/ KeyringDelete(p) \/ WroteBeside(p) \/ Rename(p)
  PROVE  /\ Writes(p) /\ UNCHANGED <<cmd, host>>
         /\ host[p] \in Hosts /\ cmd[p].file \in Files /\ cmd[p].kind \in Kinds
         /\ stored[p] \in StoredConfig /\ file[cmd[p].file] \in StoredConfig
<1>1. ASSUME Logout(p) PROVE Writes(p)
  BY <1>1, LogoutFacts DEF Writes, Active, Ended
<1>2. ASSUME LogsIn(p) PROVE Writes(p)
  BY <1>2, LogInFacts DEF Writes, Active, Ended
<1>3. ASSUME KeyringDelete(p) \/ WroteBeside(p) \/ Rename(p)
      PROVE  Writes(p) /\ UNCHANGED <<cmd, host>>
  <2>1. Changed(p) /\ UNCHANGED <<cmd, host>>
    BY <1>3, DeleteFacts, WroteBesideFacts, RenameFacts DEF Changed, IInv
  <2>2. pc[p] \in {"save", "rename"} /\ cmd[p].op # "use"
    BY <2>1 DEF Alone, ChangesItsHost, Changed
  <2>. QED
    BY <2>1, <2>2 DEF Writes, Active, Ended
<1>4. Writes(p) /\ UNCHANGED <<cmd, host>>
  BY <1>1, <1>2, <1>3, LogoutFacts, LogInFacts
<1>. QED
  BY <1>4, WriterFacts DEF Writes

LEMMA TouchesItsOwn ==
  ASSUME IInv, Alone, NEW p \in Procs, Step(p)
  PROVE  /\ \A f \in Files : ~(Writes(p) /\ f = cmd[p].file) => file'[f] = file[f]
         /\ \A f \in Files, h \in Hosts : ~(Writes(p) /\ f = cmd[p].file /\ h = host[p]) =>
              /\ holds'[f][h] = holds[f][h]
              /\ \A kind \in Kinds : keyring'[<<f, h, kind>>] = keyring[<<f, h, kind>>]
<1>1. CASE Loads(p) \/ ChangesNothing(p)
  BY <1>1, StartFacts, ChangesNothingFacts DEF NothingWritten, IInv
<1>2. ASSUME Logout(p) \/ LogsIn(p) \/ KeyringDelete(p) \/ WroteBeside(p) \/ Rename(p)
      PROVE  /\ \A f \in Files : f # cmd[p].file => file'[f] = file[f]
             /\ \A f \in Files, h \in Hosts : f # cmd[p].file \/ h # host[p] =>
                  /\ holds'[f][h] = holds[f][h]
                  /\ \A kind \in Kinds : keyring'[<<f, h, kind>>] = keyring[<<f, h, kind>>]
  <2>1. /\ file \in [Files -> StoredConfig] /\ keyring \in [Entries -> Secrets]
        /\ holds \in [Files -> [Hosts -> Secrets \cup {Nobody, Unsure}]]
        /\ \A f \in Files, h \in Hosts, kind \in Kinds : <<f, h, kind>> \in Entries
    BY DEF IInv, TypeOK, Entries
  <2>2. file' = file \/ file' = [file EXCEPT ![cmd[p].file] = stored[p]]
    BY <1>2, LogoutFacts, LogInFacts, DeleteFacts, WroteBesideFacts, RenameFacts
       DEF NothingWritten, IInv
  <2>3. \/ holds' = holds
        \/ \E held : holds' = [holds EXCEPT ![cmd[p].file] = [@ EXCEPT ![host[p]] = held]]
    <3>1. CASE Logout(p) \/ LogsIn(p)
      <4>1. HoldUnsure(p)
        BY <3>1, LogoutFacts, LogInFacts
      <4>. QED
        BY <4>1 DEF HoldUnsure
    <3>2. CASE KeyringDelete(p) \/ WroteBeside(p)
      BY <3>2, DeleteFacts, WroteBesideFacts DEF NothingWritten, IInv
    <3>3. CASE Rename(p)
      <4>1. holds' = [holds EXCEPT ![cmd[p].file] = [@ EXCEPT ![host[p]] = HeldAfter(p)]]
        BY <3>3, RenameFacts DEF IInv
      <4>. QED
        BY <4>1
    <3>. QED
      BY <1>2, <3>1, <3>2, <3>3
  <2>4. \/ keyring' = keyring
        \/ \E e, secret : /\ keyring' = [keyring EXCEPT ![e] = secret]
                          /\ \A f \in Files, h \in Hosts, kind \in Kinds :
                               e = <<f, h, kind>> => f = cmd[p].file /\ h = host[p]
    <3>1. CASE LogsIn(p)
      <4>1. \/ keyring' = keyring
            \/ keyring' = [keyring EXCEPT ![<<cmd[p].file, host[p], cmd[p].kind>>] = p]
        BY <3>1, LogInFacts
      <4>2. \A f \in Files, h \in Hosts, kind \in Kinds :
              <<cmd[p].file, host[p], cmd[p].kind>> = <<f, h, kind>> => f = cmd[p].file /\ h = host[p]
        OBVIOUS
      <4>. QED
        BY <4>1, <4>2
    <3>2. CASE KeyringDelete(p)
      <4>1. LET e == todo[p][1] IN e[1] \in {cmd[p].file, Anyone} /\ e[2] = host[p]
        <5>1. pc[p] = "save" /\ Len(todo[p]) \in Nat \ {0}
          BY <3>2, DeleteFacts
        <5>2. Changed(p) /\ 1 \in 1 .. Len(todo[p])
          BY <5>1 DEF Changed
        <5>. QED
          BY <5>2 DEF Alone, DeletesItsOwn
      <4>2. \A f \in Files, h \in Hosts, kind \in Kinds :
              todo[p][1] = <<f, h, kind>> => f = cmd[p].file /\ h = host[p]
        BY <4>1, HostsAssumption
      <4>. QED
        <5>1. \/ keyring' = keyring
              \/ keyring' = [keyring EXCEPT ![todo[p][1]] = NoSecret]
          BY <3>2, DeleteFacts
        <5>. QED
          BY <4>2, <5>1
    <3>3. CASE Logout(p) \/ WroteBeside(p) \/ Rename(p)
      BY <3>3, LogoutFacts, WroteBesideFacts, RenameFacts DEF NothingWritten, IInv
    <3>. QED
      BY <1>2, <3>1, <3>2, <3>3
  <2>5. \A f \in Files : f # cmd[p].file => file'[f] = file[f]
    BY <2>1, <2>2
  <2>6. \A f \in Files, h \in Hosts : f # cmd[p].file \/ h # host[p] => holds'[f][h] = holds[f][h]
    <3>1. CASE holds' = holds
      BY <3>1
    <3>2. ASSUME NEW held, holds' = [holds EXCEPT ![cmd[p].file] = [@ EXCEPT ![host[p]] = held]],
                 NEW f \in Files, NEW h \in Hosts, f # cmd[p].file \/ h # host[p]
          PROVE  holds'[f][h] = holds[f][h]
      BY <2>1, <3>2
    <3>. QED
      BY <2>3, <3>1, <3>2
  <2>7. \A f \in Files, h \in Hosts, kind \in Kinds : f # cmd[p].file \/ h # host[p] =>
          keyring'[<<f, h, kind>>] = keyring[<<f, h, kind>>]
    BY <2>1, <2>4
  <2>. QED
    BY <2>5, <2>6, <2>7
<1>3. Loads(p) \/ ChangesNothing(p) \/ Writes(p)
  BY StepKinds, WritersWrite
<1>. QED
  BY <1>1, <1>2, StepKinds, WritersWrite

(* So nothing happens to the file of another command that writes.          *)
LEMMA OthersFileStays ==
  ASSUME IInv, Alone, NEW p \in Procs, Step(p), NEW q \in Procs, q # p, Writes(q)
  PROVE  LET f == cmd[q].file
         IN /\ file'[f] = file[f]
            /\ \A h \in Hosts : /\ holds'[f][h] = holds[f][h]
                                /\ \A kind \in Kinds : keyring'[<<f, h, kind>>] = keyring[<<f, h, kind>>]
<1>1. cmd[q].file \in Files
  BY WriterFacts DEF Writes
<1>2. ~(Writes(p) /\ cmd[q].file = cmd[p].file)
  BY DEF Alone, OneWriter
<1>. QED
  BY <1>1, <1>2, TouchesItsOwn

----------------------------------------------------------------------------
(* Every step keeps each part of Alone.                                    *)

LEMMA OneWriterStep ==
  ASSUME ~Overlap, IInv, Alone, NEW p \in Procs, Step(p)
  PROVE  OneWriter'
<1>1. \A q \in Procs : q # p => Writes(q)' = Writes(q) /\ cmd'[q] = cmd[q]
  BY OthersStay DEF OthersKept, Writes, Active
<1>2. \/ Writes(p)' => Writes(p) /\ cmd'[p] = cmd[p]
      \/ \A q \in Procs : Writes(q) /\ Writes(p)' => cmd[q].file # cmd'[p].file
  <2>1. CASE Loads(p)
    BY <2>1, StartFacts DEF Writes, IInv
  <2>2. CASE ChangesNothing(p)
    BY <2>2, ChangesNothingFacts DEF Writes, Active, Ended, IInv
  <2>3. CASE Logout(p) \/ LogsIn(p) \/ KeyringDelete(p) \/ WroteBeside(p) \/ Rename(p)
    BY <2>3, WritersWrite
  <2>. QED
    BY <2>1, <2>2, <2>3, StepKinds
<1>3. OneWriter
  BY DEF Alone
<1>. HIDE DEF Writes
<1>. QED
  BY <1>1, <1>2, <1>3 DEF OneWriter

LEMMA CopyIsCurrentStep ==
  ASSUME IInv, Alone, NEW p \in Procs, Step(p)
  PROVE  CopyIsCurrent'
<1>. SUFFICES ASSUME NEW q \in Procs, pc'[q] \in {"set", "own"}, cmd'[q].op # "use"
     PROVE  stored'[q] = file'[cmd'[q].file]
  BY DEF CopyIsCurrent
<1>1. CASE q # p
  <2>1. /\ pc[q] \in {"set", "own"} /\ cmd'[q] = cmd[q] /\ stored'[q] = stored[q]
        /\ cmd[q].op # "use"
    BY <1>1, OthersStay DEF OthersKept
  <2>2. Writes(q)
    BY <2>1 DEF Writes, Active, Ended
  <2>3. file'[cmd[q].file] = file[cmd[q].file]
    BY <1>1, <2>2, OthersFileStays
  <2>. QED
    BY <2>1, <2>3 DEF Alone, CopyIsCurrent
<1>2. CASE q = p
  <2>1. CASE Loads(p)
    BY <1>2, <2>1, StartFacts DEF NothingWritten, IInv
  <2>2. CASE ChangesNothing(p)
    <3>1. /\ pc[p] \in {"set", "own"} /\ cmd'[p] = cmd[p] /\ stored'[p] = stored[p] /\ file' = file
      BY <1>2, <2>2, ChangesNothingFacts DEF NothingWritten, Ended, IInv
    <3>. QED
      BY <1>2, <3>1 DEF Alone, CopyIsCurrent
  <2>3. CASE Logout(p) \/ LogsIn(p) \/ KeyringDelete(p) \/ WroteBeside(p) \/ Rename(p)
    BY <1>2, <2>3, LogoutFacts, LogInFacts, DeleteFacts, WroteBesideFacts, RenameFacts DEF IInv
  <2>. QED
    BY <2>1, <2>2, <2>3, StepKinds
<1>. QED
  BY <1>1, <1>2

LEMMA ChangesItsHostStep ==
  ASSUME IInv, Alone, NEW p \in Procs, Step(p)
  PROVE  ChangesItsHost'
<1>. DEFINE now(q) == file[cmd[q].file]
            Copy(q) ==
              /\ cmd[q].op # "use"
              /\ \A h \in Hosts : h # host[q] \/ cmd[q].op \notin {"login", "logout"} =>
                   (h \in stored[q].hosts <=> h \in now(q).hosts) /\ stored[q].plain[h] = now(q).plain[h]
              /\ cmd[q].op \in {"login", "addAliases"} =>
                   /\ now(q).hosts \subseteq stored[q].hosts
                   /\ \A h \in Hosts : now(q).aliases[h] \subseteq stored[q].aliases[h]
              /\ cmd[q].op = "login" => host[q] \in stored[q].hosts
              /\ cmd[q].op = "logout" =>
                   host[q] \notin stored[q].hosts /\ stored[q].plain[host[q]] = NoSecrets
<1>1. \A q \in Procs : Changed(q) => Copy(q)
  BY DEF Alone, ChangesItsHost
<1>2. SUFFICES ASSUME NEW q \in Procs, Changed(q)' PROVE Copy(q)'
  BY DEF ChangesItsHost
<1>3. ASSUME q # p PROVE Copy(q)'
  <2>1. /\ pc[q] \in {"save", "rename"} /\ cmd'[q] = cmd[q] /\ stored'[q] = stored[q]
        /\ host'[q] = host[q]
    BY <1>2, <1>3, OthersStay DEF OthersKept, Changed
  <2>2. Copy(q)
    BY <1>1, <2>1 DEF Changed
  <2>3. Writes(q)
    BY <2>1, <2>2 DEF Writes, Active, Ended
  <2>4. now(q)' = now(q)
    BY <1>3, <2>1, <2>3, OthersFileStays
  <2>. HIDE DEF now
  <2>. QED
    BY <2>1, <2>2, <2>4
<1>4. ASSUME q = p, Loads(p) PROVE Copy(q)'
  <2>1. PICK c \in Commands :
          /\ file' = file /\ cmd'[p] = c
          /\ c.op \in {"addAliases", "setAliases", "removeAlias", "setDefault"}
          /\ stored'[p].hosts = file[c.file].hosts /\ stored'[p].plain = file[c.file].plain
          /\ c.op = "addAliases" => \A h \in Hosts :
               file[c.file].aliases[h] \subseteq stored'[p].aliases[h]
    BY <1>2, <1>4, StartFacts DEF Changed, NothingWritten, IInv
  <2>. QED
    BY <1>4, <2>1
<1>5. ASSUME q = p, ChangesNothing(p) PROVE Copy(q)'
  BY <1>2, <1>5, ChangesNothingFacts DEF Changed, Ended, IInv
<1>6. ASSUME q = p, Logout(p) PROVE Copy(q)'
  <2>1. stored[p] = file[cmd[p].file] /\ UNCHANGED <<file, cmd, host>> /\ cmd[p].op = "logout"
    BY <1>6, LogoutFacts DEF Alone, CopyIsCurrent
  <2>2. /\ host[p] \in Hosts /\ stored[p].plain \in [Hosts -> [Kinds -> Secrets]]
    BY <1>6, WritersWrite DEF StoredConfig
  <2>3. /\ stored'[p].hosts = stored[p].hosts \ {host[p]}
        /\ stored'[p].plain = [stored[p].plain EXCEPT ![host[p]] = NoSecrets]
    BY <1>6, LogoutFacts
  <2>. QED
    BY <1>6, <2>1, <2>2, <2>3
<1>7. ASSUME q = p, LogsIn(p) PROVE Copy(q)'
  <2>1. stored[p] = file[cmd[p].file] /\ UNCHANGED <<file, cmd, host>> /\ cmd[p].op = "login"
    BY <1>7, LogInFacts DEF Alone, CopyIsCurrent
  <2>2. /\ host[p] \in Hosts /\ stored[p].plain \in [Hosts -> [Kinds -> Secrets]]
    BY <1>7, WritersWrite DEF StoredConfig
  <2>3. /\ stored'[p].hosts = stored[p].hosts \cup {host[p]}
        /\ \A h \in Hosts : stored[p].aliases[h] \subseteq stored'[p].aliases[h]
    BY <1>7, LogInFacts
  <2>4. PICK secrets : /\ stored'[p].plain = [stored[p].plain EXCEPT ![host[p]] = secrets]
                       /\ KeyringSet(p) => secrets = NoSecrets
    BY <1>7, LogInFacts
  <2>. QED
    BY <1>7, <2>1, <2>2, <2>3, <2>4
<1>8. ASSUME q = p, KeyringDelete(p) \/ WroteBeside(p) PROVE Copy(q)'
  <2>1. Changed(p) /\ UNCHANGED <<file, cmd, host, stored>>
    BY <1>8, DeleteFacts, WroteBesideFacts DEF Changed, NothingWritten, IInv
  <2>. QED
    BY <1>1, <1>8, <2>1
<1>9. ASSUME q = p, Rename(p) PROVE FALSE
  BY <1>2, <1>9, RenameFacts DEF Changed, IInv
<1>. HIDE DEF Copy
<1>. QED
  BY <1>3, <1>4, <1>5, <1>6, <1>7, <1>8, <1>9, StepKinds

LEMMA ForgottenOwn ==
  ASSUME NEW p \in Procs, cmd[p].file \in Files, host[p] \in Hosts
  PROVE  /\ Len(Forgotten(p)) \in Nat
         /\ \A i \in 1 .. Len(Forgotten(p)) :
              Forgotten(p)[i][1] \in {cmd[p].file, Anyone} /\ Forgotten(p)[i][2] = host[p]
         /\ \A kind \in Kinds : \E i \in 1 .. Len(Forgotten(p)) :
              Forgotten(p)[i] = <<cmd[p].file, host[p], kind>>
<1>. DEFINE own == Pair(cmd[p].file, host[p])
            old == IF got[p] = NoSecrets THEN Pair(Anyone, host[p]) ELSE <<>>
<1>1. /\ Len(own) = 2 /\ \A j \in 1 .. 2 : own[j][1] = cmd[p].file /\ own[j][2] = host[p]
      /\ \A kind \in Kinds : \E j \in 1 .. 2 : own[j] = <<cmd[p].file, host[p], kind>>
  BY DEF Pair, Kinds
<1>2. Len(old) \in {0, 2} /\ \A j \in 1 .. Len(old) : old[j][1] = Anyone /\ old[j][2] = host[p]
  BY DEF Pair
<1>3. own \in Seq(Entries) /\ old \in Seq(Entries)
  <2>1. own \in Seq(Entries) /\ Pair(Anyone, host[p]) \in Seq(Entries) /\ <<>> \in Seq(Entries)
    BY PairType
  <2>. QED
    BY <2>1
<1>4. Forgotten(p) = own \o old
  BY DEF Forgotten, CredentialKey
<1>. HIDE DEF own, old
<1>5. /\ Len(own \o old) = Len(own) + Len(old)
      /\ \A i \in 1 .. Len(own) + Len(old) :
           (own \o old)[i] = IF i <= Len(own) THEN own[i] ELSE old[i - Len(own)]
  BY <1>3, ConcatProperties
<1>6. \A i \in 1 .. Len(own) : (own \o old)[i] = own[i]
  BY <1>1, <1>2, <1>5
<1>7. \A i \in 1 .. Len(own) + Len(old) : i \notin 1 .. Len(own) =>
        i - 2 \in 1 .. Len(old) /\ (own \o old)[i] = old[i - 2]
  BY <1>1, <1>2, <1>5
<1>. QED
  BY <1>1, <1>2, <1>4, <1>5, <1>6, <1>7

LEMMA DeletesItsOwnStep ==
  ASSUME IInv, Alone, NEW p \in Procs, Step(p)
  PROVE  DeletesItsOwn'
<1>. DEFINE Entry(q, e) ==
              /\ Begun(q) /\ e[1] \in {cmd[q].file, Anyone} /\ e[2] = host[q]
              /\ cmd[q].op = "login" => e = <<cmd[q].file, host[q], Other(cmd[q].kind)>>
            Own(q) ==
              /\ Begun(q) => holds[cmd[q].file][host[q]] = Unsure
              /\ pc[q] = "rename" => todo[q] = <<>>
              /\ Changed(q) => \A i \in 1 .. Len(todo[q]) : Entry(q, todo[q][i])
<1>1. \A q \in Procs : Own(q)
  BY DEF Alone, DeletesItsOwn
<1>2. SUFFICES ASSUME NEW q \in Procs PROVE Own(q)'
  BY DEF DeletesItsOwn
<1>3. ASSUME q # p PROVE Own(q)'
  <2>1. /\ pc'[q] = pc[q] /\ cmd'[q] = cmd[q] /\ todo'[q] = todo[q] /\ host'[q] = host[q]
    BY <1>3, OthersStay DEF OthersKept
  <2>2. ASSUME Begun(q) PROVE holds'[cmd[q].file][host[q]] = holds[cmd[q].file][host[q]]
    <3>1. Writes(q)
      BY <2>2 DEF Begun, Changed, Writes, Active, Ended
    <3>. QED
      BY <1>3, <3>1, OthersFileStays, WriterFacts DEF Writes
  <2>. QED
    BY <1>1, <2>1, <2>2 DEF Begun, Changed
<1>4. ASSUME q = p, Loads(p) PROVE Own(q)'
  <2>1. PICK c \in Commands :
          /\ cmd'[p] = c /\ pc'[p] # "rename"
          /\ pc'[p] = "save" => /\ todo'[p] = <<>>
                                /\ c.op \in {"addAliases", "setAliases", "removeAlias", "setDefault"}
    BY <1>4, StartFacts DEF IInv
  <2>. QED
    BY <1>4, <2>1 DEF Begun, Changed
<1>5. ASSUME q = p, ChangesNothing(p) PROVE Own(q)'
  BY <1>5, ChangesNothingFacts DEF Begun, Changed, Ended, IInv
<1>6. ASSUME q = p, Logout(p) PROVE Own(q)'
  <2>1. /\ host[p] \in Hosts /\ cmd[p].file \in Files /\ UNCHANGED <<cmd, host>>
        /\ cmd[p].op = "logout" /\ pc'[p] = "save" /\ todo'[p] = Forgotten(p) /\ HoldUnsure(p)
    BY <1>6, WritersWrite, LogoutFacts
  <2>2. holds'[cmd[p].file][host[p]] = Unsure
    BY <2>1 DEF HoldUnsure, IInv, TypeOK
  <2>3. Begun(p)'
    BY <2>1 DEF Begun, Changed
  <2>. QED
    BY <1>6, <2>1, <2>2, <2>3, ForgottenOwn
<1>7. ASSUME q = p, LogsIn(p) PROVE Own(q)'
  <2>. DEFINE e == <<cmd[p].file, host[p], Other(cmd[p].kind)>>
  <2>1. /\ host[p] \in Hosts /\ cmd[p].file \in Files /\ UNCHANGED <<cmd, host>>
        /\ cmd[p].op = "login" /\ pc'[p] = "save" /\ todo'[p] = <<e>> /\ HoldUnsure(p)
    BY <1>7, WritersWrite, LogInFacts
  <2>2. holds'[cmd[p].file][host[p]] = Unsure
    BY <2>1 DEF HoldUnsure, IInv, TypeOK
  <2>3. Begun(p)'
    BY <2>1 DEF Begun, Changed
  <2>4. e[1] = cmd[p].file /\ e[2] = host[p]
    OBVIOUS
  <2>. HIDE DEF e
  <2>5. Len(todo'[p]) = 1 /\ todo'[p][1] = e
    BY <2>1
  <2>6. /\ e[1] \in {cmd'[p].file, Anyone} /\ e[2] = host'[p]
        /\ e = <<cmd'[p].file, host'[p], Other(cmd'[p].kind)>>
    BY <2>1, <2>4 DEF e
  <2>7. \A i \in 1 .. Len(todo'[p]) : todo'[p][i] = e
    BY <2>5
  <2>8. q = p /\ pc'[p] # "rename"
    BY <1>7, <2>1
  <2>. QED
    BY <2>1, <2>2, <2>3, <2>6, <2>7, <2>8
<1>8. ASSUME q = p, KeyringDelete(p) PROVE Own(q)'
  <2>1. UNCHANGED <<pc, cmd, host, holds>> /\ pc[p] = "save"
    BY <1>8, DeleteFacts
  <2>2. Begun(p)' = Begun(p) /\ \A e : Entry(p, e)' = Entry(p, e)
    BY <2>1 DEF Begun, Changed
  <2>3. \A i \in 1 .. Len(todo'[p]) : i + 1 \in 1 .. Len(todo[p]) /\ todo'[p][i] = todo[p][i + 1]
    BY <1>8, DeleteFacts
  <2>. HIDE DEF Entry
  <2>. QED
    BY <1>1, <1>8, <2>1, <2>2, <2>3 DEF Changed
<1>9. ASSUME q = p, WroteBeside(p) PROVE Own(q)'
  <2>1. UNCHANGED <<cmd, host, holds, todo>> /\ pc[p] = "save" /\ todo[p] = <<>>
    BY <1>9, WroteBesideFacts DEF NothingWritten, IInv
  <2>. QED
    BY <1>1, <1>9, <2>1 DEF Begun, Changed
<1>10. ASSUME q = p, Rename(p) PROVE Own(q)'
  BY <1>10, RenameFacts DEF Begun, Changed, IInv
<1>. HIDE DEF Own
<1>. QED
  BY <1>3, <1>4, <1>5, <1>6, <1>7, <1>8, <1>9, <1>10, StepKinds

LEMMA InitAlone == Init => Alone
  BY DEF Init, Alone, OneWriter, CopyIsCurrent, ChangesItsHost, DeletesItsOwn, Begun, Changed,
     Writes, Active

LEMMA NextAlone ==
  ASSUME ~Overlap, IInv, Alone, [Next]_vars
  PROVE  Alone'
<1>1. CASE Next
  <2>1. PICK p \in Procs : Step(p)
    BY <1>1 DEF Next
  <2>. QED
    BY <2>1, OneWriterStep, CopyIsCurrentStep, ChangesItsHostStep, DeletesItsOwnStep DEF Alone
<1>2. CASE UNCHANGED vars
  <2>1. UNCHANGED <<file, pc, cmd, host, stored, todo, holds>>
    BY <1>2 DEF vars
  <2>2. OneWriter' /\ CopyIsCurrent'
    BY <2>1 DEF Alone, OneWriter, CopyIsCurrent, Writes, Active
  <2>3. ChangesItsHost'
    BY <2>1 DEF Alone, ChangesItsHost, Changed
  <2>4. DeletesItsOwn'
    BY <2>1 DEF Alone, DeletesItsOwn, Begun, Changed
  <2>. QED
    BY <2>2, <2>3, <2>4 DEF Alone
<1>. QED
  BY <1>1, <1>2

LEMMA AloneAlways == ASSUME ~Overlap PROVE Spec => [](IInv /\ Alone)
<1>1. Init => IInv /\ Alone
  BY InitIInv, InitAlone
<1>2. IInv /\ Alone /\ [Next]_vars => (IInv /\ Alone)'
  BY NextIInv, NextAlone
<1>. QED
  BY <1>1, <1>2, PTL DEF Spec

(* Where no two commands change one file at a time, what a login or an     *)
(* alias added is about to write has every host and alias the file has,    *)
(* whatever the keyring and the disk refuse (SaveLogin, AddHostAliases).   *)
THEOREM AddingKeepsInTurn == ASSUME ~Overlap PROVE Spec => []AddingKeeps
<1>1. Alone => AddingKeeps
  BY DEF Alone, ChangesItsHost, Changed, AddingKeeps
<1>. QED
  BY <1>1, AloneAlways, PTL

----------------------------------------------------------------------------
(* What is yet to be deleted is deleted.                                   *)
LEMMA DeletedNext ==
  ASSUME "delete" \notin KeyringFails, IInv, Alone, NEW p \in Procs, KeyringDelete(p),
         NEW kind \in Kinds, GoneOrNext(p, kind)
  PROVE  GoneOrNext(p, kind)'
<1>. DEFINE e == <<cmd[p].file, host[p], kind>>
<1>1. UNCHANGED <<cmd, host>> /\ e \in Entries
  BY WritersWrite DEF Entries
<1>2. keyring' = [keyring EXCEPT ![todo[p][1]] = NoSecret] /\ keyring \in [Entries -> Secrets]
  BY DeleteFacts DEF IInv, TypeOK
<1>3. /\ Len(todo[p]) \in Nat \ {0} /\ Len(todo'[p]) = Len(todo[p]) - 1
      /\ \A i \in 1 .. Len(todo'[p]) : todo'[p][i] = todo[p][i + 1]
  BY DeleteFacts
<1>4. keyring[e] = NoSecret \/ \E i \in 1 .. Len(todo[p]) : todo[p][i] = e
  BY DEF GoneOrNext
<1>5. SUFFICES keyring'[e] = NoSecret \/ \E i \in 1 .. Len(todo'[p]) : todo'[p][i] = e
  BY <1>1 DEF GoneOrNext
<1>. HIDE DEF e
<1>6. CASE keyring[e] = NoSecret \/ todo[p][1] = e
  BY <1>1, <1>2, <1>6
<1>7. ASSUME NEW i \in 1 .. Len(todo[p]), i # 1, todo[p][i] = e
      PROVE  i - 1 \in 1 .. Len(todo'[p]) /\ todo'[p][i - 1] = e
  BY <1>3, <1>7
<1>. QED
  BY <1>4, <1>6, <1>7

(* And what another command wrote stays as it is.                          *)
LEMMA OthersGone ==
  ASSUME IInv, Alone, NEW p \in Procs, Step(p), NEW q \in Procs, q # p, Writes(q),
         NEW kind \in Kinds
  PROVE  GoneOrNext(q, kind)' = GoneOrNext(q, kind)
<1>1. cmd'[q] = cmd[q] /\ host'[q] = host[q] /\ todo'[q] = todo[q] /\ host[q] \in Hosts
  BY OthersStay, WriterFacts DEF OthersKept, Writes
<1>2. keyring'[<<cmd[q].file, host[q], kind>>] = keyring[<<cmd[q].file, host[q], kind>>]
  BY <1>1, OthersFileStays
<1>. QED
  BY <1>1, <1>2 DEF GoneOrNext

LEMMA ChangedWrites ==
  ASSUME Alone, NEW p \in Procs, Changed(p)
  PROVE  Writes(p)
  BY DEF Alone, ChangesItsHost, Changed, Writes, Active, Ended

LEMMA LeavesNothingStep ==
  ASSUME "delete" \notin KeyringFails, IInv, Alone, LeavesNothing, NEW p \in Procs, Step(p)
  PROVE  LeavesNothing'
<1>. SUFFICES ASSUME NEW q \in Procs, Changed(q)', cmd'[q].op = "logout", NEW kind \in Kinds
     PROVE  GoneOrNext(q, kind)'
  BY DEF LeavesNothing
<1>1. CASE q # p
  <2>1. Changed(q) /\ cmd[q].op = "logout"
    BY <1>1, OthersStay DEF OthersKept, Changed
  <2>. QED
    BY <1>1, <2>1, ChangedWrites, OthersGone DEF LeavesNothing
<1>2. ASSUME q = p, Loads(p) \/ ChangesNothing(p) \/ LogsIn(p) \/ Rename(p) PROVE FALSE
  <2>1. CASE Loads(p)
    BY <1>2, <2>1, StartFacts DEF Changed, IInv
  <2>2. CASE ChangesNothing(p)
    BY <1>2, <2>2, ChangesNothingFacts DEF Changed, Ended, IInv
  <2>3. CASE LogsIn(p)
    BY <1>2, <2>3, LogInFacts
  <2>4. CASE Rename(p)
    BY <1>2, <2>4, RenameFacts DEF Changed, IInv
  <2>. QED
    BY <1>2, <2>1, <2>2, <2>3, <2>4
<1>3. CASE q = p /\ Logout(p)
  <2>1. todo'[p] = Forgotten(p) /\ UNCHANGED <<cmd, host>> /\ cmd[p].file \in Files /\ host[p] \in Hosts
    BY <1>3, LogoutFacts, WritersWrite
  <2>2. \E i \in 1 .. Len(Forgotten(p)) : Forgotten(p)[i] = <<cmd[p].file, host[p], kind>>
    BY <2>1, ForgottenOwn
  <2>. QED
    BY <1>3, <2>1, <2>2 DEF GoneOrNext
<1>4. CASE q = p /\ KeyringDelete(p)
  <2>1. Changed(p) /\ cmd[p].op = "logout"
    BY <1>4, DeleteFacts DEF Changed
  <2>. QED
    BY <1>4, <2>1, DeletedNext DEF LeavesNothing
<1>5. CASE q = p /\ WroteBeside(p)
  <2>1. Changed(p) /\ cmd[p].op = "logout" /\ UNCHANGED <<keyring, cmd, host, todo>>
    BY <1>5, WroteBesideFacts DEF Changed, NothingWritten, IInv
  <2>. QED
    BY <1>5, <2>1 DEF LeavesNothing, GoneOrNext
<1>. QED
  BY <1>1, <1>2, <1>3, <1>4, <1>5, StepKinds

(* What a file says of a host no step begins or ends a change of.          *)
LEMMA HostStays ==
  ASSUME IInv, Alone, NEW p \in Procs, Step(p), NEW f \in Files, NEW h \in Hosts,
         ~(Writes(p) /\ f = cmd[p].file /\ h = host[p])
  PROVE  /\ holds'[f][h] = holds[f][h]
         /\ \A kind \in Kinds : keyring'[<<f, h, kind>>] = keyring[<<f, h, kind>>]
         /\ h \in file'[f].hosts <=> h \in file[f].hosts
         /\ file'[f].plain[h] = file[f].plain[h]
<1>1. CASE file'[f] = file[f]
  BY <1>1, TouchesItsOwn
<1>2. CASE file'[f] # file[f]
  <2>1. Writes(p) /\ f = cmd[p].file /\ h # host[p]
    BY <1>2, TouchesItsOwn
  <2>2. Rename(p)
    BY <1>2, StepKinds, StartFacts, ChangesNothingFacts, LogoutFacts, LogInFacts, DeleteFacts,
       WroteBesideFacts DEF NothingWritten, IInv
  <2>3. file'[f] = stored[p] /\ Changed(p)
    BY <2>1, <2>2, RenameFacts DEF Changed, IInv, TypeOK
  <2>4. /\ h \in stored[p].hosts <=> h \in file[f].hosts
        /\ stored[p].plain[h] = file[f].plain[h]
    BY <2>1, <2>3 DEF Alone, ChangesItsHost
  <2>. QED
    BY <2>1, <2>3, <2>4, TouchesItsOwn
<1>. QED
  BY <1>1, <1>2

(* And what it says of the host a command has begun or ends to change.     *)
LEMMA HostChanges ==
  ASSUME IInv, Alone, NEW p \in Procs, Step(p), Writes(p)
  PROVE  LET f == cmd[p].file
             h == host[p]
         IN \/ UNCHANGED <<file, keyring, holds>>
            \/ holds'[f][h] = Unsure
            \/ /\ Rename(p) /\ holds'[f][h] = HeldAfter(p) /\ file'[f] = stored[p]
               /\ UNCHANGED <<keyring, cmd, host>> /\ todo[p] = <<>> /\ Changed(p)
<1>0. host[p] \in Hosts /\ cmd[p].file \in Files
  BY WriterFacts DEF Writes
<1>1. CASE Loads(p) \/ ChangesNothing(p) \/ WroteBeside(p)
  BY <1>1, StartFacts, ChangesNothingFacts, WroteBesideFacts DEF NothingWritten, IInv
<1>2. CASE Logout(p) \/ LogsIn(p)
  <2>1. HoldUnsure(p)
    BY <1>2, LogoutFacts, LogInFacts
  <2>. QED
    BY <1>0, <2>1 DEF HoldUnsure, IInv, TypeOK
<1>3. CASE KeyringDelete(p)
  <2>1. /\ pc[p] = "save" /\ holds' = holds /\ Len(todo[p]) \in Nat \ {0}
    BY <1>3, DeleteFacts
  <2>2. Begun(p)
    BY <2>1 DEF Alone, DeletesItsOwn, Changed
  <2>3. holds[cmd[p].file][host[p]] = Unsure
    BY <2>2 DEF Alone, DeletesItsOwn
  <2>. QED
    BY <2>1, <2>3
<1>4. CASE Rename(p)
  <2>1. /\ file' = [file EXCEPT ![cmd[p].file] = stored[p]] /\ UNCHANGED <<keyring, cmd, host>>
        /\ holds' = [holds EXCEPT ![cmd[p].file] = [@ EXCEPT ![host[p]] = HeldAfter(p)]]
        /\ pc[p] = "rename"
    BY <1>4, RenameFacts DEF IInv
  <2>2. todo[p] = <<>> /\ Changed(p)
    BY <2>1 DEF Alone, DeletesItsOwn, Changed
  <2>. QED
    BY <1>0, <1>4, <2>1, <2>2 DEF IInv, TypeOK
<1>. QED
  BY <1>1, <1>2, <1>3, <1>4, StepKinds

LEMMA LogoutForgetsStep ==
  ASSUME IInv, Alone, Forgetting, NEW p \in Procs, Step(p)
  PROVE  LogoutForgets'
<1>. SUFFICES ASSUME NEW f \in Files, NEW h \in Hosts, holds'[f][h] = Nobody
     PROVE  /\ h \notin file'[f].hosts /\ file'[f].plain[h] = NoSecrets
            /\ \A kind \in Kinds : keyring'[<<f, h, kind>>] = NoSecret
  BY DEF LogoutForgets
<1>1. holds[f][h] = Nobody =>
        /\ h \notin file[f].hosts /\ file[f].plain[h] = NoSecrets
        /\ \A kind \in Kinds : keyring[<<f, h, kind>>] = NoSecret
  BY DEF Forgetting, LogoutForgets
<1>2. CASE ~(Writes(p) /\ f = cmd[p].file /\ h = host[p])
  BY <1>1, <1>2, HostStays
<1>3. CASE Writes(p) /\ f = cmd[p].file /\ h = host[p]
  <2>1. CASE UNCHANGED <<file, keyring, holds>>
    BY <1>1, <2>1
  <2>2. CASE /\ holds'[f][h] = HeldAfter(p) /\ file'[f] = stored[p]
             /\ UNCHANGED <<keyring, cmd, host>> /\ todo[p] = <<>> /\ Changed(p)
    <3>1. CASE cmd[p].op = "logout"
      <4>1. h \notin stored[p].hosts /\ stored[p].plain[h] = NoSecrets
        BY <1>3, <2>2, <3>1 DEF Alone, ChangesItsHost
      <4>2. \A kind \in Kinds : keyring[<<f, h, kind>>] = NoSecret
        BY <1>3, <2>2, <3>1 DEF Forgetting, LeavesNothing, GoneOrNext
      <4>. QED
        BY <2>2, <4>1, <4>2
    <3>2. CASE cmd[p].op = "login"
      BY <2>2, <3>2, SecretsAssumption DEF HeldAfter, Secrets
    <3>3. CASE cmd[p].op \notin {"login", "logout"}
      <4>1. holds[f][h] = Nobody
        BY <1>3, <2>2, <3>3 DEF HeldAfter
      <4>2. /\ h \in stored[p].hosts <=> h \in file[f].hosts
            /\ stored[p].plain[h] = file[f].plain[h]
        BY <1>3, <2>2, <3>3 DEF Alone, ChangesItsHost
      <4>. QED
        BY <1>1, <2>2, <4>1, <4>2
    <3>. QED
      BY <3>1, <3>2, <3>3
  <2>3. Nobody # Unsure
    BY SecretsAssumption
  <2>. QED
    BY <1>3, <2>1, <2>2, <2>3, HostChanges
<1>. QED
  BY <1>2, <1>3

LEMMA InitForgetting == Init => Forgetting
<1>. SUFFICES ASSUME Init PROVE Forgetting
  OBVIOUS
<1>1. LeavesNothing
  BY DEF Init, LeavesNothing, Changed
<1>2. ASSUME NEW f \in Files, NEW h \in Hosts, holds[f][h] = Nobody
      PROVE  /\ h \notin file[f].hosts /\ file[f].plain[h] = NoSecrets
             /\ \A kind \in Kinds : keyring[<<f, h, kind>>] = NoSecret
  <2>1. <<f, h>> \notin Before
    BY <1>2, SecretsAssumption DEF Init, Secrets
  <2>2. file[f] = Upgraded(f)
    BY DEF Init
  <2>3. h \notin Upgraded(f).hosts /\ Upgraded(f).plain[h] = NoSecrets
    BY <2>1 DEF Upgraded
  <2>4. \A kind \in Kinds : keyring[<<f, h, kind>>] = NoSecret
    <3>1. \A kind \in Kinds : <<f, h, kind>> \in Entries /\ <<f, h, kind>>[1] # Anyone
      BY HostsAssumption DEF Entries
    <3>. QED
      BY <3>1 DEF Init
  <2>. QED
    BY <2>2, <2>3, <2>4
<1>. QED
  BY <1>1, <1>2 DEF Forgetting, LogoutForgets

LEMMA NextForgetting ==
  ASSUME "delete" \notin KeyringFails, IInv, Alone, Forgetting, [Next]_vars
  PROVE  Forgetting'
<1>1. CASE Next
  <2>1. PICK p \in Procs : Step(p)
    BY <1>1 DEF Next
  <2>. QED
    BY <2>1, LogoutForgetsStep, LeavesNothingStep DEF Forgetting
<1>2. CASE UNCHANGED vars
  BY <1>2 DEF vars, Forgetting, LogoutForgets, LeavesNothing, GoneOrNext, Changed
<1>. QED
  BY <1>1, <1>2

(* Where no two commands change one file at a time and the keyring deletes *)
(* what it is asked to, a completed logout leaves nothing of the host, in  *)
(* the file or of it in the keyring -- wherever the secret was, whatever   *)
(* the keyring would not store or read (Logout).                           *)
THEOREM LogoutForgetsInTurn ==
  ASSUME ~Overlap, "delete" \notin KeyringFails
  PROVE  Spec => []LogoutForgets
<1>1. Init => Forgetting
  BY InitForgetting
<1>2. IInv /\ Alone /\ Forgetting /\ [Next]_vars => Forgetting'
  BY NextForgetting
<1>3. Forgetting => LogoutForgets
  BY DEF Forgetting
<1>. QED
  BY <1>1, <1>2, <1>3, AloneAlways, PTL DEF Spec

----------------------------------------------------------------------------
(* A login's secret is in the keyring when its file is renamed, and it is  *)
(* the only one there for that host.                                       *)
LEMMA OtherKind == \A kind \in Kinds : Other(kind) \in Kinds /\ Other(kind) # kind
  BY DEF Kinds, Other

LEMMA CommandsGivenStep ==
  ASSUME IInv, CommandsGiven, NEW p \in Procs, Step(p)
  PROVE  CommandsGiven'
<1>1. CASE Loads(p) \/ Refuse(p)
  BY <1>1, LoadFacts DEF CommandsGiven, IInv, TypeOK
<1>2. CASE ~Refuse(p) /\ ChangesNothing(p)
  <2>1. cmd' = cmd
    <3>1. CASE KeyringGet(p) \/ FallBack(p) \/ Resolve(p) \/ RenameFails(p) \/ Kill(p)
      BY <3>1 DEF KeyringGet, FallBack, Resolve, RenameFails, Kill
    <3>2. CASE KeyringSetFails(p) \/ WriteBeside(p)
      BY <3>2 DEF KeyringSetFails, LogIn, WriteBeside
    <3>. QED
      BY <1>2, <3>1, <3>2 DEF ChangesNothing
  <2>. QED
    BY <2>1 DEF CommandsGiven
<1>3. CASE Logout(p) \/ LogsIn(p) \/ KeyringDelete(p) \/ WroteBeside(p) \/ Rename(p)
  <2>1. cmd' = cmd
    BY <1>3, LogoutFacts, LogInFacts, DeleteFacts, WroteBesideFacts, RenameFacts DEF IInv
  <2>. QED
    BY <2>1 DEF CommandsGiven
<1>. QED
  BY <1>1, <1>2, <1>3, StepKinds

LEMMA ReplacesStep ==
  ASSUME "delete" \notin KeyringFails, NoPlaintextLogins,
         IInv, Alone, CommandsGiven, Replaces, NEW p \in Procs, Step(p)
  PROVE  Replaces'
<1>. DEFINE Own(q) == <<cmd[q].file, host[q], cmd[q].kind>>
            In(q) == /\ keyring[Own(q)] = q
                     /\ GoneOrNext(q, Other(cmd[q].kind))
                     /\ stored[q].plain[host[q]] = NoSecrets
<1>1. \A q \in Procs : Changed(q) /\ cmd[q].op = "login" => In(q)
  BY DEF Replaces
<1>. SUFFICES ASSUME NEW q \in Procs, Changed(q)', cmd'[q].op = "login"
     PROVE  In(q)'
  BY DEF Replaces
<1>2. ASSUME q # p PROVE In(q)'
  <2>1. /\ Changed(q) /\ cmd'[q] = cmd[q] /\ host'[q] = host[q] /\ stored'[q] = stored[q]
        /\ cmd[q].op = "login"
    BY <1>2, OthersStay DEF OthersKept, Changed
  <2>2. Writes(q) /\ In(q)
    BY <1>1, <2>1, ChangedWrites
  <2>3. host[q] \in Hosts /\ cmd[q].kind \in Kinds
    BY <2>2, WriterFacts DEF Writes
  <2>4. GoneOrNext(q, Other(cmd[q].kind))' /\ keyring'[Own(q)] = keyring[Own(q)]
    <3>1. GoneOrNext(q, Other(cmd[q].kind))' = GoneOrNext(q, Other(cmd[q].kind))
      BY <1>2, <2>1, <2>2, <2>3, OtherKind, OthersGone DEF GoneOrNext
    <3>2. keyring'[Own(q)] = keyring[Own(q)]
      BY <1>2, <2>2, <2>3, OthersFileStays
    <3>. QED
      BY <2>2, <3>1, <3>2
  <2>. QED
    BY <2>1, <2>2, <2>4
<1>3. ASSUME q = p, Loads(p) \/ ChangesNothing(p) \/ Logout(p) \/ Rename(p) PROVE FALSE
  <2>1. CASE Loads(p)
    BY <1>3, <2>1, StartFacts DEF Changed, IInv
  <2>2. CASE ChangesNothing(p)
    BY <1>3, <2>2, ChangesNothingFacts DEF Changed, Ended, IInv
  <2>3. CASE Logout(p)
    BY <1>3, <2>3, LogoutFacts
  <2>4. CASE Rename(p)
    BY <1>3, <2>4, RenameFacts DEF Changed, IInv
  <2>. QED
    BY <1>3, <2>1, <2>2, <2>3, <2>4
<1>4. ASSUME q = p, LogsIn(p) PROVE In(p)'
  <2>. DEFINE e == <<cmd[p].file, host[p], Other(cmd[p].kind)>>
  <2>1. /\ host[p] \in Hosts /\ cmd[p].file \in Files /\ cmd[p].kind \in Kinds
        /\ UNCHANGED <<cmd, host>> /\ stored[p].plain \in [Hosts -> [Kinds -> Secrets]]
    BY <1>4, WritersWrite DEF StoredConfig
  <2>2. cmd[p].op = "login" /\ todo'[p] = <<e>>
    BY <1>4, LogInFacts
  <2>3. ~("set" \in KeyringFails /\ PlaintextAllowed(cmd[p]))
    BY <2>2 DEF NoPlaintextLogins, CommandsGiven
  <2>4. KeyringSet(p) /\ keyring' = [keyring EXCEPT ![Own(p)] = p]
    <3>1. keyring' = [keyring EXCEPT ![Own(p)] = p]
      BY <1>4, <2>3, LogInFacts
    <3>2. KeyringSet(p)
      <4>1. CASE KeyringSetFails(p) /\ pc'[p] # "failed"
        BY <2>3, <4>1 DEF KeyringSetFails, Fail, IInv, TypeOK
      <4>. QED
        BY <1>4, <4>1 DEF LogsIn
    <3>. QED
      BY <3>1, <3>2
  <2>5. stored'[p].plain[host[p]] = NoSecrets
    BY <1>4, <2>1, <2>4, LogInFacts
  <2>6. keyring'[Own(p)] = p
    BY <2>1, <2>4 DEF IInv, TypeOK, Entries
  <2>7. GoneOrNext(p, Other(cmd[p].kind))'
    <3>. HIDE DEF e
    <3>1. 1 \in 1 .. Len(todo'[p]) /\ todo'[p][1] = e
      BY <2>2
    <3>. QED
      BY <2>1, <3>1 DEF GoneOrNext, e
  <2>. QED
    BY <2>1, <2>5, <2>6, <2>7
<1>5. ASSUME q = p, KeyringDelete(p) PROVE In(p)'
  <2>1. /\ Changed(p) /\ cmd[p].op = "login" /\ UNCHANGED <<cmd, host, stored>>
        /\ keyring' = [keyring EXCEPT ![todo[p][1]] = NoSecret]
        /\ 1 \in 1 .. Len(todo[p])
    BY <1>5, DeleteFacts DEF Changed
  <2>2. /\ host[p] \in Hosts /\ cmd[p].file \in Files /\ cmd[p].kind \in Kinds
    BY <1>5, WritersWrite
  <2>3. todo[p][1] = <<cmd[p].file, host[p], Other(cmd[p].kind)>>
    BY <2>1 DEF Alone, DeletesItsOwn
  <2>4. todo[p][1] # Own(p)
    BY <2>2, <2>3, OtherKind
  <2>5. In(p) /\ keyring'[Own(p)] = keyring[Own(p)]
    BY <1>1, <2>1, <2>2, <2>4 DEF IInv, TypeOK, Entries
  <2>6. GoneOrNext(p, Other(cmd[p].kind))'
    <3>1. PICK kind \in Kinds : kind = Other(cmd[p].kind)
      BY <2>2, OtherKind
    <3>2. GoneOrNext(p, kind)'
      BY <1>5, <2>5, <3>1, DeletedNext
    <3>. QED
      BY <2>1, <3>1, <3>2 DEF GoneOrNext
  <2>. QED
    BY <2>1, <2>5, <2>6
<1>6. ASSUME q = p, WroteBeside(p) PROVE In(p)'
  <2>1. Changed(p) /\ UNCHANGED <<keyring, cmd, host, stored, todo>>
    BY <1>6, WroteBesideFacts DEF Changed, NothingWritten, IInv
  <2>2. In(p)
    BY <1>1, <1>6, <2>1
  <2>. QED
    BY <2>1, <2>2 DEF GoneOrNext
<1>. HIDE DEF In
<1>. QED
  BY <1>2, <1>3, <1>4, <1>5, <1>6, StepKinds

LEMMA InTheKeyringStep ==
  ASSUME IInv, Alone, Answering, NEW p \in Procs, Step(p)
  PROVE  InTheKeyring'
<1>. DEFINE In(f, h, q) ==
              /\ h \in file[f].hosts /\ file[f].plain[h] = NoSecrets
              /\ keyring[<<f, h, cmd[q].kind>>] = q
              /\ keyring[<<f, h, Other(cmd[q].kind)>>] = NoSecret
<1>1. \A f \in Files, h \in Hosts : holds[f][h] \in Procs =>
        pc[holds[f][h]] # "idle" /\ In(f, h, holds[f][h])
  BY DEF Answering, InTheKeyring
<1>2. SUFFICES ASSUME NEW f \in Files, NEW h \in Hosts, NEW q \in Procs, holds'[f][h] = q
      PROVE  pc'[q] # "idle" /\ In(f, h, q)'
  BY DEF InTheKeyring
<1>3. pc[q] # "idle" => /\ pc'[q] # "idle" /\ cmd'[q] = cmd[q]
                        /\ cmd[q].kind \in Kinds /\ Other(cmd[q].kind) \in Kinds
  BY OnceStarted, OtherKind DEF IInv, TypeOK, Command
<1>4. CASE ~(Writes(p) /\ f = cmd[p].file /\ h = host[p])
  <2>1. /\ holds'[f][h] = holds[f][h]
        /\ \A kind \in Kinds : keyring'[<<f, h, kind>>] = keyring[<<f, h, kind>>]
        /\ h \in file'[f].hosts <=> h \in file[f].hosts
        /\ file'[f].plain[h] = file[f].plain[h]
    BY <1>4, HostStays
  <2>2. pc[q] # "idle" /\ In(f, h, q)
    BY <1>1, <1>2, <2>1
  <2>3. pc'[q] # "idle" /\ cmd'[q] = cmd[q]
    BY <1>3, <2>2
  <2>4. cmd[q].kind \in Kinds /\ Other(cmd[q].kind) \in Kinds
    BY <1>3, <2>2
  <2>. QED
    BY <2>1, <2>2, <2>3, <2>4
<1>5. CASE Writes(p) /\ f = cmd[p].file /\ h = host[p]
  <2>1. CASE UNCHANGED <<file, keyring, holds>>
    <3>1. pc[q] # "idle" /\ In(f, h, q)
      BY <1>1, <1>2, <2>1
    <3>2. pc'[q] # "idle" /\ cmd'[q] = cmd[q]
      BY <1>3, <3>1
    <3>. QED
      BY <2>1, <3>1, <3>2
  <2>2. CASE /\ holds'[f][h] = HeldAfter(p) /\ file'[f] = stored[p]
             /\ UNCHANGED <<keyring, cmd, host>> /\ todo[p] = <<>> /\ Changed(p)
    <3>1. CASE cmd[p].op = "login"
      <4>1. q = p /\ pc[p] # "idle"
        BY <1>2, <2>2, <3>1 DEF HeldAfter, Changed
      <4>2. h \in stored[p].hosts
        BY <1>5, <2>2, <3>1 DEF Alone, ChangesItsHost
      <4>3. /\ keyring[<<f, h, cmd[p].kind>>] = p /\ stored[p].plain[h] = NoSecrets
            /\ GoneOrNext(p, Other(cmd[p].kind))
        BY <1>5, <2>2, <3>1 DEF Answering, Replaces
      <4>4. keyring[<<f, h, Other(cmd[p].kind)>>] = NoSecret
        BY <1>5, <2>2, <4>3 DEF GoneOrNext
      <4>. QED
        BY <1>3, <2>2, <4>1, <4>2, <4>3, <4>4
    <3>2. CASE cmd[p].op = "logout"
      BY <1>2, <2>2, <3>2, SecretsAssumption DEF HeldAfter, Secrets
    <3>3. CASE cmd[p].op \notin {"login", "logout"}
      <4>1. holds[f][h] = q
        BY <1>2, <1>5, <2>2, <3>3 DEF HeldAfter
      <4>2. /\ h \in stored[p].hosts <=> h \in file[f].hosts
            /\ stored[p].plain[h] = file[f].plain[h]
        BY <1>5, <2>2, <3>3 DEF Alone, ChangesItsHost
      <4>. QED
        BY <1>1, <1>3, <2>2, <4>1, <4>2
    <3>. QED
      BY <3>1, <3>2, <3>3
  <2>3. Unsure \notin Procs
    BY SecretsAssumption DEF Secrets
  <2>. QED
    BY <1>2, <1>5, <2>1, <2>2, <2>3, HostChanges
<1>. QED
  BY <1>4, <1>5

LEMMA InitAnswering == Init => CommandsGiven /\ Answering
<1>. SUFFICES ASSUME Init PROVE CommandsGiven /\ Answering
  OBVIOUS
<1>1. CommandsGiven
  BY CommandsAssumption DEF Init, CommandsGiven
<1>2. Replaces
  BY DEF Init, Replaces, Changed
<1>3. \A f \in Files, h \in Hosts : holds[f][h] \notin Procs
  BY SecretsAssumption DEF Init, Secrets
<1>. QED
  BY <1>1, <1>2, <1>3 DEF Answering, InTheKeyring

LEMMA NextAnswering ==
  ASSUME "delete" \notin KeyringFails, NoPlaintextLogins,
         IInv, Alone, CommandsGiven, Answering, [Next]_vars
  PROVE  (CommandsGiven /\ Answering)'
<1>1. CASE Next
  <2>1. PICK p \in Procs : Step(p)
    BY <1>1 DEF Next
  <2>. QED
    BY <2>1, CommandsGivenStep, ReplacesStep, InTheKeyringStep DEF Answering
<1>2. CASE UNCHANGED vars
  <2>1. UNCHANGED <<file, keyring, pc, cmd, host, stored, todo, holds>>
    BY <1>2 DEF vars
  <2>2. CommandsGiven' /\ InTheKeyring'
    BY <2>1 DEF CommandsGiven, Answering, InTheKeyring
  <2>3. Replaces'
    BY <2>1 DEF Answering, Replaces, GoneOrNext, Changed
  <2>. QED
    BY <2>2, <2>3 DEF Answering
<1>. QED
  BY <1>1, <1>2

(* The one secret in the keyring is the one bb acts on.                    *)
LEMMA AnsweringAnswers ==
  ASSUME IInv, Answering
  PROVE  LastLoginAnswers
<1>. SUFFICES ASSUME NEW f \in Files, NEW h \in Hosts, NEW q \in Procs, holds[f][h] = q
     PROVE  Answers(f, h) = q
  BY DEF LastLoginAnswers
<1>. DEFINE own == [kind \in Kinds |-> keyring[<<f, h, kind>>]]
            old == [kind \in Kinds |-> keyring[<<Anyone, h, kind>>]]
<1>1. /\ h \in file[f].hosts /\ file[f].plain[h] = NoSecrets
      /\ keyring[<<f, h, cmd[q].kind>>] = q
      /\ keyring[<<f, h, Other(cmd[q].kind)>>] = NoSecret
      /\ cmd[q].kind \in Kinds
  BY DEF Answering, InTheKeyring, IInv, TypeOK, Command
<1>2. \/ own["token"] = q /\ own["password"] = NoSecret
      \/ own["token"] = NoSecret /\ own["password"] = q
  BY <1>1 DEF Kinds, Other
<1>3. q # NoSecret
  BY SecretsAssumption
<1>4. Answers(f, h) = ActsOn(Filled(IF own = NoSecrets THEN old ELSE own, NoSecrets))
  BY <1>1 DEF Answers
<1>. HIDE DEF own, old
<1>5. own # NoSecrets
  BY <1>2, <1>3 DEF NoSecrets, Kinds
<1>6. /\ Filled(own, NoSecrets)["token"] = own["token"]
      /\ Filled(own, NoSecrets)["password"] = own["password"]
  BY DEF Filled, NoSecrets, Kinds
<1>. QED
  BY <1>2, <1>3, <1>4, <1>5, <1>6 DEF ActsOn

(* Where no two commands change one file at a time, the keyring deletes    *)
(* what it is asked to, and no login may keep in plain text what the       *)
(* keyring refuses, the login a file last completed for a host is the one  *)
(* it acts on: after logins of either kind, logouts, refused and killed    *)
(* commands and other files' commands, in any order (SaveLogin,            *)
(* credentialsForStoredHost, storedSecrets).                               *)
THEOREM LastLoginAnswersInTurn ==
  ASSUME ~Overlap, "delete" \notin KeyringFails, NoPlaintextLogins
  PROVE  Spec => []LastLoginAnswers
<1>1. Init => CommandsGiven /\ Answering
  BY InitAnswering
<1>2. IInv /\ Alone /\ CommandsGiven /\ Answering /\ [Next]_vars => (CommandsGiven /\ Answering)'
  BY NextAnswering
<1>3. IInv /\ Answering => LastLoginAnswers
  BY AnsweringAnswers
<1>. QED
  BY <1>1, <1>2, <1>3, AloneAlways, PTL DEF Spec

=============================================================================
