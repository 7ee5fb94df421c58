----------------------- MODULE CredentialStoreProofs -----------------------
(***************************************************************************)
(* What holds of CredentialStore for any number of commands, files, hosts  *)
(* and aliases, with the keyring and the disk failing at will and commands *)
(* overlapping and dying anywhere.                                         *)
(***************************************************************************)
EXTENDS CredentialStore, SequenceTheorems, TLAPS

Sound(s) ==
  /\ DefaultIsStored(s)
  /\ AliasOwnedOnce(s)
  /\ NothingLeftBehind(s)

(* Every copy of a file in a command's memory is as sound as the file: it  *)
(* is either what was read or what is about to be written.                 *)
CopiesAreSound == \A p \in Procs : Sound(stored[p])

(* A running command resolved a host, and a login checked its aliases      *)
(* against the copy it will change.                                        *)
HostIsKnown == \A p \in Procs : Active(p) => host[p] \in Hosts
LoginWasChecked ==
  \A p \in Procs : pc[p] = "set" =>
    /\ cmd[p].op = "login" /\ cmd[p].host = host[p]
    /\ OwnsAliases(stored[p], host[p], stored[p].aliases[host[p]] \cup cmd[p].aliases)

IInv == TypeOK /\ FilesAreSound /\ CopiesAreSound /\ HostIsKnown /\ LoginWasChecked

----------------------------------------------------------------------------
(* Each change the code makes to a StoredConfig keeps its type and keeps   *)
(* it sound.                                                               *)

LEMMA NoSecretsType == NoSecrets \in [Kinds -> Secrets]
  BY DEF NoSecrets, Secrets

LEMMA UpgradedSound ==
  ASSUME NEW f \in Files
  PROVE  Upgraded(f) \in StoredConfig /\ Sound(Upgraded(f))
<1> DEFINE before == {h \in Hosts : <<f, h>> \in Before}
           default == IF before = {} THEN NoHost ELSE CHOOSE h \in before : TRUE
<1>1. default \in before \/ (before = {} /\ default = NoHost)
  OBVIOUS
<1>2. Upgraded(f) = [hosts |-> before, default |-> default,
                     aliases |-> [h \in Hosts |-> {}],
                     plain |-> [h \in Hosts |-> NoSecrets]]
  BY DEF Upgraded
<1>3. before \subseteq Hosts
  OBVIOUS
<1> HIDE DEF before, default
<1>4. Upgraded(f) \in StoredConfig
  BY <1>1, <1>2, <1>3, NoSecretsType DEF StoredConfig
<1>5. Sound(Upgraded(f))
  BY <1>1, <1>2, <1>3 DEF Sound, DefaultIsStored, AliasOwnedOnce, NothingLeftBehind
<1> QED  BY <1>4, <1>5

LEMMA LoggedInSound ==
  ASSUME NEW s \in StoredConfig, Sound(s), NEW c \in Command, c.host \in Hosts,
         NEW secrets \in [Kinds -> Secrets],
         OwnsAliases(s, c.host, s.aliases[c.host] \cup c.aliases)
  PROVE  LoggedIn(s, c, secrets) \in StoredConfig /\ Sound(LoggedIn(s, c, secrets))
<1> DEFINE t == LoggedIn(s, c, secrets)
<1>1. t \in StoredConfig
  BY DEF LoggedIn, StoredConfig, Command
<1>2. /\ t.hosts = s.hosts \cup {c.host}
      /\ t.default \in {c.host, s.default}
      /\ s.default = NoHost => t.default = c.host
      /\ \A h \in Hosts \ {c.host} : t.aliases[h] = s.aliases[h] /\ t.plain[h] = s.plain[h]
      /\ t.aliases[c.host] = s.aliases[c.host] \cup c.aliases
  BY DEF LoggedIn, StoredConfig
<1>3. s.hosts \subseteq Hosts
  BY DEF StoredConfig
<1> HIDE DEF t
<1>4. DefaultIsStored(t)
  BY <1>2 DEF Sound, DefaultIsStored
<1>5. AliasOwnedOnce(t)
  BY <1>2, <1>3 DEF Sound, AliasOwnedOnce, OwnsAliases
<1>6. NothingLeftBehind(t)
  BY <1>2 DEF Sound, NothingLeftBehind
<1> QED  BY <1>1, <1>4, <1>5, <1>6 DEF Sound, t

LEMMA LoggedOutSound ==
  ASSUME NEW s \in StoredConfig, Sound(s), NEW h \in Hosts, NEW next \in Nexts(s, h)
  PROVE  LoggedOut(s, h, next) \in StoredConfig /\ Sound(LoggedOut(s, h, next))
<1> DEFINE t == LoggedOut(s, h, next)
<1>1. next \in s.hosts \ {h} \/ (next = NoHost /\ s.hosts \subseteq {h})
  BY DEF Nexts
<1>2. s.hosts \subseteq Hosts
  BY DEF StoredConfig
<1>3. t \in StoredConfig
  BY <1>1, <1>2, NoSecretsType DEF LoggedOut, StoredConfig
<1>4. /\ t.hosts = s.hosts \ {h}
      /\ t.default = IF s.default = h THEN next ELSE s.default
      /\ \A g \in Hosts \ {h} : t.aliases[g] = s.aliases[g] /\ t.plain[g] = s.plain[g]
      /\ t.aliases[h] = {} /\ t.plain[h] = NoSecrets
  BY DEF LoggedOut, StoredConfig
<1> HIDE DEF t
<1>5. DefaultIsStored(t)
  BY <1>1, <1>4, HostsAssumption DEF Sound, DefaultIsStored
<1>6. AliasOwnedOnce(t)
  BY <1>2, <1>4 DEF Sound, AliasOwnedOnce
<1>7. NothingLeftBehind(t)
  BY <1>4 DEF Sound, NothingLeftBehind
<1> QED  BY <1>3, <1>5, <1>6, <1>7 DEF Sound, t

LEMMA WithAliasesSound ==
  ASSUME NEW s \in StoredConfig, Sound(s), NEW h \in s.hosts,
         NEW aliases \in SUBSET Aliases, OwnsAliases(s, h, aliases)
  PROVE  WithAliases(s, h, aliases) \in StoredConfig /\ Sound(WithAliases(s, h, aliases))
<1> DEFINE t == WithAliases(s, h, aliases)
<1>1. s.hosts \subseteq Hosts
  BY DEF StoredConfig
<1>2. t \in StoredConfig
  BY DEF WithAliases, StoredConfig
<1>3. /\ t.hosts = s.hosts /\ t.default = s.default /\ t.plain = s.plain
      /\ \A g \in Hosts \ {h} : t.aliases[g] = s.aliases[g]
      /\ t.aliases[h] = aliases
  BY <1>1 DEF WithAliases, StoredConfig
<1> HIDE DEF t
<1>4. DefaultIsStored(t)
  BY <1>3 DEF Sound, DefaultIsStored
<1>5. AliasOwnedOnce(t)
  BY <1>1, <1>3 DEF Sound, AliasOwnedOnce, OwnsAliases
<1>6. NothingLeftBehind(t)
  BY <1>3 DEF Sound, NothingLeftBehind
<1> QED  BY <1>2, <1>4, <1>5, <1>6 DEF Sound, t

LEMMA DefaultSetSound ==
  ASSUME NEW s \in StoredConfig, Sound(s), NEW h \in s.hosts
  PROVE  [s EXCEPT !.default = h] \in StoredConfig /\ Sound([s EXCEPT !.default = h])
<1> DEFINE t == [s EXCEPT !.default = h]
<1>1. t \in StoredConfig
  BY DEF StoredConfig
<1>2. t.hosts = s.hosts /\ t.default = h /\ t.aliases = s.aliases /\ t.plain = s.plain
  BY DEF StoredConfig
<1> HIDE DEF t
<1>3. Sound(t)
  BY <1>2 DEF Sound, DefaultIsStored, AliasOwnedOnce, NothingLeftBehind
<1> QED  BY <1>1, <1>3 DEF t

LEMMA PairType ==
  ASSUME NEW scope \in Files \cup {Anyone}, NEW h \in Hosts
  PROVE  Pair(scope, h) \in Seq(Entries)
<1> DEFINE a == <<scope, h, "token">>
           b == <<scope, h, "password">>
<1>1. a \in Entries /\ b \in Entries
  BY DEF Entries, Kinds
<1> HIDE DEF a, b
<1>2. <<a, b>> \in Seq(Entries)
  BY <1>1
<1> QED  BY <1>2 DEF Pair, a, b

----------------------------------------------------------------------------
LEMMA InitIInv == Init => IInv
<1> SUFFICES ASSUME Init PROVE IInv
  OBVIOUS
<1> USE DEF Init
<1>1. \A p \in Procs : cmd[p] \in Commands /\ cmd[p] \in Command
  BY CommandsAssumption
<1>2. cmd \in [Procs -> Command]
  BY <1>1
<1>3. \A p \in Procs : stored[p] = Upgraded(cmd[p].file) /\ cmd[p].file \in Files
  BY <1>1 DEF Command
<1>4. file \in [Files -> StoredConfig] /\ stored \in [Procs -> StoredConfig]
  BY <1>3, UpgradedSound
<1>5. keyring \in [Entries -> Secrets]
  BY DEF Secrets
<1>6. holds \in [Files -> [Hosts -> Secrets \cup {Nobody, Unsure}]]
  BY DEF Secrets
<1>7. todo \in [Procs -> Seq(Entries)]
  BY EmptySeq
<1>8. TypeOK
  BY <1>2, <1>4, <1>5, <1>6, <1>7, NoSecretsType DEF TypeOK
<1>9. FilesAreSound /\ CopiesAreSound
  BY <1>3, UpgradedSound DEF FilesAreSound, CopiesAreSound, Sound
<1>10. HostIsKnown /\ LoginWasChecked
  BY DEF HostIsKnown, LoginWasChecked, Active
<1> QED  BY <1>8, <1>9, <1>10 DEF IInv

(* Any command that loads its file, whatever it makes of its copy.         *)
LEMMA LoadKeeps ==
  ASSUME IInv, NEW p \in Procs, NEW c \in Commands, NEW h \in Hosts \cup {NoHost},
         NEW next \in StoredConfig, Sound(next), NEW entries \in Seq(Entries),
         NEW where \in {"set", "own", "save", "done"},
         Load(p, c, h, next, entries, where),
         where # "done" => h \in Hosts,
         where = "set" => c.op = "login" /\ c.host = h /\ next = file[c.file]
  PROVE  IInv'
<1> USE DEF IInv, Load, Starts
<1>1. c \in Command /\ c.file \in Files
  BY CommandsAssumption DEF Command
<1>2. TypeOK'
  BY <1>1 DEF TypeOK, Ended
<1>3. FilesAreSound'
  BY DEF FilesAreSound
<1>4. CopiesAreSound'
  BY DEF CopiesAreSound, TypeOK
<1>5. HostIsKnown'
  BY DEF HostIsKnown, TypeOK, Active, Ended
<1>6. LoginWasChecked'
  <2> SUFFICES ASSUME NEW q \in Procs, pc'[q] = "set"
               PROVE  /\ cmd'[q].op = "login" /\ cmd'[q].host = host'[q]
                      /\ OwnsAliases(stored'[q], host'[q],
                           stored'[q].aliases[host'[q]] \cup cmd'[q].aliases)
    BY DEF LoginWasChecked
  <2>1. CASE q = p
    BY <2>1, <1>1 DEF TypeOK, Accepts
  <2>2. CASE q # p
    BY <2>2 DEF TypeOK, LoginWasChecked
  <2> QED  BY <2>1, <2>2
<1> QED  BY <1>2, <1>3, <1>4, <1>5, <1>6

(* A step that only moves pc on, to where the others expect it.            *)
LEMMA MoveKeeps ==
  ASSUME IInv, NEW p \in Procs,
         NEW where \in Ended \cup {"rename", "own", "old", "save"},
         pc' = [pc EXCEPT ![p] = where],
         where \notin Ended => Active(p),
         UNCHANGED <<file, keyring, cmd, host, stored, todo, got, holds>>
  PROVE  IInv'
<1> USE DEF IInv
<1>1. TypeOK'
  BY DEF TypeOK
<1>2. FilesAreSound' /\ CopiesAreSound'
  BY DEF FilesAreSound, CopiesAreSound
<1>3. HostIsKnown'
  BY DEF HostIsKnown, TypeOK, Active, Ended
<1>4. LoginWasChecked'
  BY DEF LoginWasChecked, TypeOK, Ended
<1> QED  BY <1>1, <1>2, <1>3, <1>4

----------------------------------------------------------------------------
(* The commands that end in a load, and those it starts.                   *)
LEMMA FileRead ==
  ASSUME IInv, NEW c \in Commands
  PROVE  /\ c \in Command /\ file[c.file] \in StoredConfig /\ Sound(file[c.file])
         /\ file[c.file].hosts \subseteq Hosts
         /\ CredentialKey(c.file) \in Files \cup {Anyone}
         /\ Target(file[c.file], c) \in Hosts \cup {NoHost}
<1>1. c \in Command /\ c.file \in Files /\ c.host \in Hosts \cup {NoHost}
  BY CommandsAssumption DEF Command
<1>2. file[c.file] \in StoredConfig /\ Sound(file[c.file])
  BY <1>1 DEF IInv, TypeOK, FilesAreSound, Sound
<1> QED  BY <1>1, <1>2 DEF StoredConfig, CredentialKey, Target

LEMMA LoadsKeep ==
  ASSUME IInv, NEW p \in Procs,
         \/ LoadLogin(p) \/ AddHostAliases(p) \/ SetHostAliases(p) \/ RemoveHostAlias(p)
         \/ SetDefaultHost(p) \/ LoadLogout(p) \/ LoadUse(p) \/ UseUnknown(p) \/ Refuse(p)
  PROVE  IInv'
<1>1. <<>> \in Seq(Entries)
  BY EmptySeq
<1>2. CASE LoadLogin(p)
  <2>1. PICK c \in Commands : c.op = "login" /\ Load(p, c, c.host, file[c.file], <<>>, "set")
    BY <1>2 DEF LoadLogin
  <2>2. c.host \in Hosts
    BY <2>1, CommandsAssumption DEF Command
  <2> QED  BY <1>1, <2>1, <2>2, FileRead, LoadKeeps
<1>3. CASE AddHostAliases(p)
  <2>1. PICK c \in Commands :
          /\ c.op = "addAliases"
          /\ Load(p, c, c.host,
                  WithAliases(file[c.file], c.host, file[c.file].aliases[c.host] \cup c.aliases),
                  <<>>, "save")
    BY <1>3 DEF AddHostAliases
  <2> DEFINE aliases == file[c.file].aliases[c.host] \cup c.aliases
  <2>2. c.host \in file[c.file].hosts /\ OwnsAliases(file[c.file], c.host, aliases)
    BY <2>1 DEF Load, Accepts
  <2>3. c.host \in Hosts /\ aliases \in SUBSET Aliases
    BY <2>2, FileRead DEF StoredConfig, Command
  <2>4. /\ WithAliases(file[c.file], c.host, aliases) \in StoredConfig
        /\ Sound(WithAliases(file[c.file], c.host, aliases))
    BY <2>2, <2>3, FileRead, WithAliasesSound
  <2> QED  BY <1>1, <2>1, <2>3, <2>4, LoadKeeps
<1>4. CASE SetHostAliases(p)
  <2>1. PICK c \in Commands :
          /\ c.op = "setAliases"
          /\ Load(p, c, c.host, WithAliases(file[c.file], c.host, c.aliases), <<>>, "save")
    BY <1>4 DEF SetHostAliases
  <2>2. c.host \in file[c.file].hosts /\ OwnsAliases(file[c.file], c.host, c.aliases)
    BY <2>1 DEF Load, Accepts
  <2>3. c.host \in Hosts /\ c.aliases \in SUBSET Aliases
    BY <2>2, FileRead DEF StoredConfig, Command
  <2>4. /\ WithAliases(file[c.file], c.host, c.aliases) \in StoredConfig
        /\ Sound(WithAliases(file[c.file], c.host, c.aliases))
    BY <2>2, <2>3, FileRead, WithAliasesSound
  <2> QED  BY <1>1, <2>1, <2>3, <2>4, LoadKeeps
<1>5. CASE RemoveHostAlias(p)
  <2>1. PICK c \in Commands :
          /\ c.op = "removeAlias"
          /\ Load(p, c, c.host,
                  WithAliases(file[c.file], c.host, file[c.file].aliases[c.host] \ c.aliases),
                  <<>>, "save")
    BY <1>5 DEF RemoveHostAlias
  <2> DEFINE aliases == file[c.file].aliases[c.host] \ c.aliases
  <2>2. c.host \in file[c.file].hosts
    BY <2>1 DEF Load, Accepts
  <2>3. c.host \in Hosts /\ aliases \in SUBSET Aliases
    BY <2>2, FileRead DEF StoredConfig, Command
  <2>4. OwnsAliases(file[c.file], c.host, aliases)
    BY <2>2, FileRead DEF Sound, AliasOwnedOnce, OwnsAliases
  <2>5. /\ WithAliases(file[c.file], c.host, aliases) \in StoredConfig
        /\ Sound(WithAliases(file[c.file], c.host, aliases))
    BY <2>2, <2>3, <2>4, FileRead, WithAliasesSound
  <2> QED  BY <1>1, <2>1, <2>3, <2>5, LoadKeeps
<1>6. CASE SetDefaultHost(p)
  <2>1. PICK c \in Commands :
          /\ c.op = "setDefault"
          /\ Load(p, c, c.host, [file[c.file] EXCEPT !.default = c.host], <<>>, "save")
    BY <1>6 DEF SetDefaultHost
  <2>2. c.host \in file[c.file].hosts
    BY <2>1 DEF Load, Accepts
  <2> QED  BY <1>1, <2>1, <2>2, FileRead, DefaultSetSound, LoadKeeps
<1>7. CASE LoadLogout(p)
  <2>1. PICK c \in Commands :
          /\ c.op = "logout"
          /\ Load(p, c, Target(file[c.file], c), file[c.file],
                  Pair(CredentialKey(c.file), Target(file[c.file], c)), "own")
    BY <1>7 DEF LoadLogout
  <2>2. Target(file[c.file], c) \in Hosts
    BY <2>1, FileRead DEF Load, Accepts
  <2>3. Pair(CredentialKey(c.file), Target(file[c.file], c)) \in Seq(Entries)
    BY <2>2, FileRead, PairType
  <2> QED  BY <2>1, <2>2, <2>3, FileRead, LoadKeeps
<1>8. CASE LoadUse(p)
  <2>0. PICK c \in Commands : \E h \in Matches(file[c.file], c) :
          Load(p, c, h, file[c.file], Pair(CredentialKey(c.file), h), "own")
    BY <1>8 DEF LoadUse
  <2>1. PICK h \in Matches(file[c.file], c) :
          Load(p, c, h, file[c.file], Pair(CredentialKey(c.file), h), "own")
    BY <2>0
  <2>2. h \in Hosts
    BY <2>1, FileRead, HostsAssumption DEF Matches, MatchStoredHost, AliasOwners, HostsOver
  <2>3. Pair(CredentialKey(c.file), h) \in Seq(Entries)
    BY <2>2, FileRead, PairType
  <2> QED  BY <2>1, <2>2, <2>3, FileRead, LoadKeeps
<1>9. CASE UseUnknown(p)
  <2>1. PICK c \in Commands : Load(p, c, NoHost, file[c.file], <<>>, "done")
    BY <1>9 DEF UseUnknown
  <2> QED  BY <1>1, <2>1, FileRead, LoadKeeps
<1>10. CASE Refuse(p)
  <2>1. PICK c \in Commands : cmd' = [cmd EXCEPT ![p] = c]
    BY <1>10 DEF Refuse, Starts
  <2> USE <2>1, <1>10 DEF IInv, Refuse, Fail
  <2>2. TypeOK'
    BY CommandsAssumption DEF TypeOK, Ended
  <2>3. FilesAreSound' /\ CopiesAreSound'
    BY DEF FilesAreSound, CopiesAreSound
  <2>4. HostIsKnown' /\ LoginWasChecked'
    BY DEF HostIsKnown, LoginWasChecked, TypeOK, Active, Ended
  <2> QED  BY <2>2, <2>3, <2>4
<1> QED
  BY <1>2, <1>3, <1>4, <1>5, <1>6, <1>7, <1>8, <1>9, <1>10

----------------------------------------------------------------------------
(* The keyring's calls: reading, storing and deleting entries.             *)
LEMMA ReadsKeep ==
  ASSUME IInv, NEW p \in Procs, KeyringGet(p) \/ FallBack(p) \/ Resolve(p)
  PROVE  IInv'
<1> USE DEF IInv
<1>1. CASE KeyringGet(p)
  <2>1. Head(todo[p]) \in Entries /\ Tail(todo[p]) \in Seq(Entries)
    BY <1>1, HeadTailProperties DEF KeyringGet, TypeOK
  <2>2. PICK value \in Secrets : got' = [got EXCEPT ![p] = [@ EXCEPT ![Head(todo[p])[3]] = value]]
    BY <1>1, <2>1 DEF KeyringGet, TypeOK, Secrets
  <2>3. TypeOK'
    BY <1>1, <2>1, <2>2 DEF KeyringGet, TypeOK
  <2>4. FilesAreSound' /\ CopiesAreSound' /\ HostIsKnown' /\ LoginWasChecked'
    BY <1>1 DEF KeyringGet, FilesAreSound, CopiesAreSound, HostIsKnown, LoginWasChecked, Active
  <2> QED  BY <2>3, <2>4
<1>2. CASE FallBack(p)
  <2>1. host[p] \in Hosts
    BY <1>2 DEF FallBack, HostIsKnown, Active, Ended
  <2>2. Pair(Anyone, host[p]) \in Seq(Entries)
    BY <2>1, PairType
  <2>3. TypeOK'
    BY <1>2, <2>2 DEF FallBack, TypeOK
  <2>4. FilesAreSound' /\ CopiesAreSound'
    BY <1>2 DEF FallBack, FilesAreSound, CopiesAreSound
  <2>5. HostIsKnown' /\ LoginWasChecked'
    BY <1>2, <2>1 DEF FallBack, HostIsKnown, LoginWasChecked, TypeOK, Active
  <2> QED  BY <2>3, <2>4, <2>5
<1>3. CASE Resolve(p)
  <2> DEFINE filled == Filled(got[p], stored[p].plain[host[p]])
  <2>1. host[p] \in Hosts
    BY <1>3 DEF Resolve, HostIsKnown, Active, Ended
  <2>2. filled \in [Kinds -> Secrets]
    BY <2>1 DEF Filled, TypeOK, StoredConfig
  <2>3. got' \in [Procs -> [Kinds -> Secrets]]
    BY <1>3, <2>2 DEF Resolve, TypeOK
  <2>4. PICK where \in Ended : pc' = [pc EXCEPT ![p] = where]
    BY <1>3 DEF Resolve, Fail, Ended
  <2>5. TypeOK'
    BY <1>3, <2>3, <2>4 DEF Resolve, TypeOK
  <2>6. FilesAreSound' /\ CopiesAreSound'
    BY <1>3 DEF Resolve, FilesAreSound, CopiesAreSound
  <2>7. HostIsKnown' /\ LoginWasChecked'
    BY <1>3, <2>4 DEF Resolve, HostIsKnown, LoginWasChecked, TypeOK, Active, Ended
  <2> QED  BY <2>5, <2>6, <2>7
<1> QED  BY <1>1, <1>2, <1>3

LEMMA LogoutKeeps ==
  ASSUME IInv, NEW p \in Procs, Logout(p)
  PROVE  IInv'
<1> USE DEF IInv
<1>1. host[p] \in Hosts /\ cmd[p].file \in Files
  BY DEF Logout, HostIsKnown, Active, Ended, TypeOK, Command
<1>2. PICK next \in Nexts(stored[p], host[p]) :
        stored' = [stored EXCEPT ![p] = LoggedOut(@, host[p], next)]
  BY DEF Logout
<1>3. stored[p] \in StoredConfig /\ Sound(stored[p])
  BY DEF TypeOK, CopiesAreSound
<1>4. stored' = [stored EXCEPT ![p] = LoggedOut(stored[p], host[p], next)]
  BY <1>2
<1>5. /\ LoggedOut(stored[p], host[p], next) \in StoredConfig
      /\ Sound(LoggedOut(stored[p], host[p], next))
  BY <1>1, <1>3, LoggedOutSound
<1>6. Forgotten(p) \in Seq(Entries)
  <2>1. Pair(CredentialKey(cmd[p].file), host[p]) \in Seq(Entries)
    BY <1>1, PairType DEF CredentialKey
  <2>2. Pair(Anyone, host[p]) \in Seq(Entries)
    BY <1>1, PairType
  <2>3. (IF got[p] = NoSecrets THEN Pair(Anyone, host[p]) ELSE <<>>) \in Seq(Entries)
    BY <2>2, EmptySeq
  <2> QED  BY <2>1, <2>3, ConcatProperties DEF Forgotten
<1>7. stored' \in [Procs -> StoredConfig] /\ CopiesAreSound'
  BY <1>4, <1>5 DEF TypeOK, CopiesAreSound
<1>8. holds' \in [Files -> [Hosts -> Secrets \cup {Nobody, Unsure}]]
  BY <1>1 DEF Logout, TypeOK
<1>9. TypeOK'
  BY <1>6, <1>7, <1>8 DEF Logout, TypeOK
<1>10. FilesAreSound'
  BY DEF Logout, FilesAreSound
<1>11. HostIsKnown' /\ LoginWasChecked'
  BY <1>1, <1>4 DEF Logout, HostIsKnown, LoginWasChecked, TypeOK, Active
<1> QED  BY <1>7, <1>9, <1>10, <1>11

(* SaveLogin with the secret in the keyring, or in plain text.             *)
LEMMA LogInKeeps ==
  ASSUME IInv, NEW p \in Procs, pc[p] = "set", NEW secrets \in [Kinds -> Secrets],
         LogIn(p, secrets), keyring' \in [Entries -> Secrets]
  PROVE  IInv'
<1> USE DEF IInv
<1>1. /\ cmd[p] \in Command /\ cmd[p].file \in Files /\ cmd[p].kind \in Kinds
      /\ host[p] \in Hosts /\ cmd[p].host = host[p]
      /\ stored[p] \in StoredConfig /\ Sound(stored[p])
      /\ OwnsAliases(stored[p], host[p], stored[p].aliases[host[p]] \cup cmd[p].aliases)
  BY DEF TypeOK, Command, LoginWasChecked, CopiesAreSound, HostIsKnown, Active, Ended
<1>2. /\ LoggedIn(stored[p], cmd[p], secrets) \in StoredConfig
      /\ Sound(LoggedIn(stored[p], cmd[p], secrets))
  BY <1>1, LoggedInSound
<1>3. stored' = [stored EXCEPT ![p] = LoggedIn(stored[p], cmd[p], secrets)]
  BY DEF LogIn
<1>4. <<<<CredentialKey(cmd[p].file), host[p], Other(cmd[p].kind)>>>> \in Seq(Entries)
  <2> DEFINE e == <<CredentialKey(cmd[p].file), host[p], Other(cmd[p].kind)>>
  <2>1. e \in Entries
    BY <1>1 DEF Entries, CredentialKey, Other, Kinds
  <2> HIDE DEF e
  <2>2. <<e>> \in Seq(Entries)
    BY <2>1
  <2> QED  BY <2>2 DEF e
<1>5. stored' \in [Procs -> StoredConfig] /\ CopiesAreSound'
  BY <1>2, <1>3 DEF TypeOK, CopiesAreSound
<1>6. holds' \in [Files -> [Hosts -> Secrets \cup {Nobody, Unsure}]]
  BY <1>1 DEF LogIn, TypeOK
<1>7. TypeOK'
  BY <1>4, <1>5, <1>6 DEF LogIn, TypeOK
<1>8. FilesAreSound'
  BY DEF LogIn, FilesAreSound
<1>9. HostIsKnown' /\ LoginWasChecked'
  BY <1>1, <1>3 DEF LogIn, HostIsKnown, LoginWasChecked, TypeOK, Active
<1> QED  BY <1>5, <1>7, <1>8, <1>9

LEMMA WritesKeep ==
  ASSUME IInv, NEW p \in Procs,
         \/ KeyringSet(p) \/ KeyringSetFails(p) \/ KeyringDelete(p) \/ WriteBeside(p)
         \/ Rename(p) \/ RenameFails(p) \/ Kill(p)
  PROVE  IInv'
<1> USE DEF IInv
<1>1. CASE KeyringSet(p)
  <2>1. keyring' \in [Entries -> Secrets]
    BY <1>1 DEF KeyringSet, TypeOK, Secrets
  <2> QED  BY <1>1, <2>1, NoSecretsType, LogInKeeps DEF KeyringSet
<1>2. CASE KeyringSetFails(p)
  <2>1. keyring' \in [Entries -> Secrets]
    BY <1>2 DEF KeyringSetFails, TypeOK
  <2>2. CASE PlaintextAllowed(cmd[p])
    <3>1. [NoSecrets EXCEPT ![cmd[p].kind] = p] \in [Kinds -> Secrets]
      BY NoSecretsType DEF Secrets
    <3> QED  BY <1>2, <2>1, <2>2, <3>1, LogInKeeps DEF KeyringSetFails
  <2>3. CASE ~PlaintextAllowed(cmd[p])
    BY <1>2, <2>3, MoveKeeps DEF KeyringSetFails, Fail, Ended
  <2> QED  BY <2>2, <2>3
<1>3. CASE KeyringDelete(p)
  <2>1. Tail(todo[p]) \in Seq(Entries)
    BY <1>3, HeadTailProperties DEF KeyringDelete, TypeOK
  <2>2. keyring' \in [Entries -> Secrets]
    BY <1>3 DEF KeyringDelete, TypeOK, Secrets
  <2>3. TypeOK'
    BY <1>3, <2>1, <2>2 DEF KeyringDelete, TypeOK
  <2>4. FilesAreSound' /\ CopiesAreSound' /\ HostIsKnown' /\ LoginWasChecked'
    BY <1>3 DEF KeyringDelete, FilesAreSound, CopiesAreSound, HostIsKnown, LoginWasChecked, Active
  <2> QED  BY <2>3, <2>4
<1>4. CASE WriteBeside(p)
  BY <1>4, MoveKeeps DEF WriteBeside, Fail, Active, Ended
<1>5. CASE Rename(p)
  <2>1. /\ cmd[p].file \in Files /\ host[p] \in Hosts
        /\ stored[p] \in StoredConfig /\ Sound(stored[p])
    BY <1>5 DEF Rename, TypeOK, Command, CopiesAreSound, HostIsKnown, Active, Ended
  <2>2. HeldAfter(p) \in Secrets \cup {Nobody, Unsure}
    BY <2>1 DEF HeldAfter, TypeOK, Secrets
  <2>3. holds' \in [Files -> [Hosts -> Secrets \cup {Nobody, Unsure}]]
    BY <1>5, <2>1, <2>2 DEF Rename, TypeOK
  <2>4. TypeOK'
    BY <1>5, <2>1, <2>3 DEF Rename, TypeOK, Ended
  <2>5. FilesAreSound'
    BY <1>5, <2>1 DEF Rename, FilesAreSound, TypeOK, Sound
  <2>6. CopiesAreSound' /\ HostIsKnown' /\ LoginWasChecked'
    BY <1>5 DEF Rename, CopiesAreSound, HostIsKnown, LoginWasChecked, TypeOK, Active, Ended
  <2> QED  BY <2>4, <2>5, <2>6
<1>6. CASE RenameFails(p)
  BY <1>6, MoveKeeps DEF RenameFails, Fail, Ended
<1>7. CASE Kill(p)
  BY <1>7, MoveKeeps DEF Kill, Ended
<1> QED  BY <1>1, <1>2, <1>3, <1>4, <1>5, <1>6, <1>7

LEMMA NextIInv == IInv /\ [Next]_vars => IInv'
<1> SUFFICES ASSUME IInv, [Next]_vars PROVE IInv'
  OBVIOUS
<1>1. CASE Next
  <2>1. PICK p \in Procs : Step(p)
    BY <1>1 DEF Next
  <2> QED  BY <2>1, LoadsKeep, ReadsKeep, LogoutKeeps, WritesKeep DEF Step
<1>2. CASE UNCHANGED vars
  BY <1>2 DEF vars, IInv, TypeOK, FilesAreSound, CopiesAreSound, HostIsKnown, LoginWasChecked,
     Active
<1> QED  BY <1>1, <1>2

THEOREM Invariance == Spec => []IInv
  BY InitIInv, NextIInv, PTL DEF Spec

(* Every variable keeps its type (StoredConfig and the steps of SaveLogin, *)
(* Logout and storedSecrets).                                              *)
THEOREM TypeCorrect == Spec => []TypeOK
  BY Invariance, PTL DEF IInv

(* No configuration file ever has a default it does not store, an alias of *)
(* two hosts, or something left of a host it dropped, however many         *)
(* commands overlap on it (ensureAliasOwnership, Logout, SaveStoredConfig).*)
THEOREM SoundFiles == Spec => []FilesAreSound
  BY Invariance, PTL DEF IInv

----------------------------------------------------------------------------
(* Where secrets come from.                                                *)

LoggedInBy(q, f, h) == pc[q] # "idle" /\ cmd[q].file = f /\ cmd[q].host = h

KeyringOrigin ==
  /\ \A f \in Files, h \in Hosts, kind \in Kinds :
       keyring[<<f, h, kind>>] \in Procs => LoggedInBy(keyring[<<f, h, kind>>], f, h)
  /\ \A h \in Hosts, kind \in Kinds : keyring[<<Anyone, h, kind>>] \notin Procs

FileOrigin ==
  \A f \in Files, h \in Hosts, kind \in Kinds :
    file[f].plain[h][kind] \in Procs => LoggedInBy(file[f].plain[h][kind], f, h)

CopyOrigin ==
  \A p \in Procs, h \in Hosts, kind \in Kinds :
    stored[p].plain[h][kind] \in Procs =>
      pc[p] # "idle" /\ LoggedInBy(stored[p].plain[h][kind], cmd[p].file, h)

GotOrigin ==
  \A p \in Procs, kind \in Kinds :
    got[p][kind] \in Procs =>
      pc[p] # "idle" /\ LoggedInBy(got[p][kind], cmd[p].file, host[p])

(* A command reads the entries of its own file and host, or the old ones.  *)
Reads(p, e) == e[2] = host[p] /\ e[1] \in {cmd[p].file, Anyone}
ReadsItsOwn ==
  \A p \in Procs : pc[p] \in {"own", "old"} =>
    \A i \in 1..Len(todo[p]) : Reads(p, todo[p][i])

Origins == KeyringOrigin /\ FileOrigin /\ CopyOrigin /\ GotOrigin /\ ReadsItsOwn

LEMMA InitOrigins == Init => Origins
<1> SUFFICES ASSUME Init PROVE Origins
  OBVIOUS
<1> USE DEF Init
<1>1. \A p \in Procs : cmd[p].file \in Files
  BY CommandsAssumption DEF Command
<1>2. \A f \in Files, h \in Hosts : Upgraded(f).plain[h] = NoSecrets
  BY DEF Upgraded
<1>3. \A kind \in Kinds : NoSecrets[kind] \notin Procs
  BY SecretsAssumption DEF NoSecrets
<1>4. FileOrigin /\ CopyOrigin
  BY <1>1, <1>2, <1>3 DEF FileOrigin, CopyOrigin
<1>5. \A e \in Entries : keyring[e] \notin Procs
  BY SecretsAssumption
<1>6. \A f \in Files \cup {Anyone}, h \in Hosts, kind \in Kinds : <<f, h, kind>> \in Entries
  BY DEF Entries
<1>7. KeyringOrigin
  BY <1>5, <1>6 DEF KeyringOrigin
<1>8. GotOrigin /\ ReadsItsOwn
  BY <1>3 DEF GotOrigin, ReadsItsOwn
<1> QED  BY <1>4, <1>7, <1>8 DEF Origins

(* What every step leaves alone: a command that started is the same        *)
(* command ever after.                                                     *)
Loads(p) ==
  \/ LoadLogin(p) \/ AddHostAliases(p) \/ SetHostAliases(p) \/ RemoveHostAlias(p)
  \/ SetDefaultHost(p) \/ LoadLogout(p) \/ LoadUse(p) \/ UseUnknown(p)

LEMMA LoadFacts ==
  ASSUME IInv, NEW p \in Procs, Loads(p) \/ Refuse(p)
  PROVE  \E c \in Commands :
           /\ pc[p] = "idle" /\ cmd' = [cmd EXCEPT ![p] = c]
           /\ \E where \in {"set", "own", "save", "done", "failed"} :
                pc' = [pc EXCEPT ![p] = where]
           /\ UNCHANGED <<file, keyring, got>>
           /\ \/ stored' = stored
              \/ \E next : /\ stored' = [stored EXCEPT ![p] = next]
                           /\ next.plain = file[c.file].plain
<1>1. CASE Refuse(p)
  BY <1>1 DEF Refuse, Starts, Fail
<1>2. CASE Loads(p)
  <2>1. PICK c \in Commands :
          \E h, next, entries : \E where \in {"set", "own", "save", "done"} :
            Load(p, c, h, next, entries, where) /\ next.plain = file[c.file].plain
    <3>1. \A c \in Commands : file[c.file] \in StoredConfig
      BY FileRead
    <3>2. \A c \in Commands : \A aliases, h :
            /\ WithAliases(file[c.file], h, aliases).plain = file[c.file].plain
            /\ [file[c.file] EXCEPT !.default = h].plain = file[c.file].plain
      BY <3>1 DEF WithAliases, StoredConfig
    <3>3. CASE LoadLogin(p)
      BY <3>3 DEF LoadLogin
    <3>4. CASE AddHostAliases(p)
      BY <3>2, <3>4 DEF AddHostAliases
    <3>5. CASE SetHostAliases(p)
      BY <3>2, <3>5 DEF SetHostAliases
    <3>6. CASE RemoveHostAlias(p)
      BY <3>2, <3>6 DEF RemoveHostAlias
    <3>7. CASE SetDefaultHost(p)
      <4>1. PICK c \in Commands :
              Load(p, c, c.host, [file[c.file] EXCEPT !.default = c.host], <<>>, "save")
        BY <3>7 DEF SetDefaultHost
      <4> DEFINE next == [file[c.file] EXCEPT !.default = c.host]
      <4>2. next.plain = file[c.file].plain
        BY <3>2
      <4> HIDE DEF next
      <4>3. Load(p, c, c.host, next, <<>>, "save")
        BY <4>1 DEF next
      <4> QED  BY <4>2, <4>3
    <3>8. CASE LoadLogout(p)
      BY <3>8 DEF LoadLogout
    <3>9. CASE LoadUse(p)
      BY <3>9 DEF LoadUse
    <3>10. CASE UseUnknown(p)
      BY <3>10 DEF UseUnknown
    <3> QED  BY <1>2, <3>3, <3>4, <3>5, <3>6, <3>7, <3>8, <3>9, <3>10 DEF Loads
  <2> QED  BY <2>1 DEF Load, Starts
<1> QED  BY <1>1, <1>2

(* The copy a logout and a login leave.                                    *)
LEMMA LogoutCopy ==
  ASSUME IInv, NEW p \in Procs, Logout(p)
  PROVE  \E next \in StoredConfig :
           /\ stored' = [stored EXCEPT ![p] = next]
           /\ next.plain = [stored[p].plain EXCEPT ![host[p]] = NoSecrets]
<1>1. host[p] \in Hosts /\ stored[p] \in StoredConfig /\ Sound(stored[p])
  BY DEF IInv, Logout, HostIsKnown, Active, Ended, TypeOK, CopiesAreSound
<1>2. PICK next \in Nexts(stored[p], host[p]) :
        stored' = [stored EXCEPT ![p] = LoggedOut(@, host[p], next)]
  BY DEF Logout
<1>3. LoggedOut(stored[p], host[p], next) \in StoredConfig
  BY <1>1, LoggedOutSound
<1>4. LoggedOut(stored[p], host[p], next).plain = [stored[p].plain EXCEPT ![host[p]] = NoSecrets]
  BY DEF LoggedOut
<1> QED  BY <1>2, <1>3, <1>4

LEMMA LoginCopy ==
  ASSUME IInv, NEW p \in Procs, KeyringSet(p) \/ KeyringSetFails(p)
  PROVE  \/ stored' = stored
         \/ \E next, secrets :
              /\ stored' = [stored EXCEPT ![p] = next]
              /\ next.plain = [stored[p].plain EXCEPT ![host[p]] = secrets]
              /\ \A kind \in Kinds : secrets[kind] \in {p, NoSecret}
<1>1. cmd[p].host = host[p] /\ pc[p] = "set"
  BY DEF IInv, LoginWasChecked, KeyringSet, KeyringSetFails
<1>2. \A secrets : LoggedIn(stored[p], cmd[p], secrets).plain
                     = [stored[p].plain EXCEPT ![host[p]] = secrets]
  BY <1>1 DEF LoggedIn
<1>3. /\ \A kind \in Kinds : NoSecrets[kind] \in {p, NoSecret}
      /\ \A kind \in Kinds : [NoSecrets EXCEPT ![cmd[p].kind] = p][kind] \in {p, NoSecret}
  BY DEF NoSecrets
<1>4. CASE KeyringSet(p)
  BY <1>2, <1>3, <1>4 DEF KeyringSet, LogIn
<1>5. CASE KeyringSetFails(p)
  <2>1. CASE PlaintextAllowed(cmd[p])
    <3> DEFINE secrets == [NoSecrets EXCEPT ![cmd[p].kind] = p]
    <3>1. LogIn(p, secrets) /\ \A kind \in Kinds : secrets[kind] \in {p, NoSecret}
      BY <1>3, <1>5, <2>1 DEF KeyringSetFails
    <3> HIDE DEF secrets
    <3> QED  BY <1>2, <3>1 DEF LogIn
  <2>2. CASE ~PlaintextAllowed(cmd[p])
    BY <1>5, <2>2 DEF KeyringSetFails
  <2> QED  BY <2>1, <2>2
<1> QED  BY <1>4, <1>5

LEMMA OnceStarted ==
  ASSUME IInv, NEW p \in Procs, Step(p)
  PROVE  \A q \in Procs : pc[q] # "idle" => pc'[q] # "idle" /\ cmd'[q] = cmd[q]
<1> USE DEF IInv, TypeOK
<1>1. CASE Loads(p) \/ Refuse(p)
  BY <1>1, LoadFacts
<1>2. CASE KeyringGet(p) \/ FallBack(p) \/ Resolve(p) \/ Logout(p)
  BY <1>2 DEF KeyringGet, FallBack, Resolve, Logout, Fail
<1>3. CASE KeyringSet(p) \/ KeyringSetFails(p) \/ KeyringDelete(p)
  BY <1>3 DEF KeyringSet, KeyringSetFails, KeyringDelete, LogIn, Fail
<1>4. CASE WriteBeside(p) \/ Rename(p) \/ RenameFails(p) \/ Kill(p)
  BY <1>4 DEF WriteBeside, Rename, RenameFails, Kill, Fail
<1> QED  BY <1>1, <1>2, <1>3, <1>4 DEF Step, Loads

LEMMA LoggedInByStays ==
  ASSUME IInv, NEW p \in Procs, Step(p), NEW q \in Procs, NEW f, NEW h,
         LoggedInBy(q, f, h)
  PROVE  LoggedInBy(q, f, h)'
  BY OnceStarted DEF LoggedInBy

LEMMA KeyringOriginStays ==
  ASSUME IInv, Origins, NEW p \in Procs, Step(p)
  PROVE  KeyringOrigin'
<1> USE DEF IInv, TypeOK
<1>1. \/ keyring' = keyring
      \/ \E e \in Entries : keyring' = [keyring EXCEPT ![e] = NoSecret]
      \/ KeyringSet(p)
  <2>1. CASE Loads(p) \/ Refuse(p)
    BY <2>1, LoadFacts
  <2>2. CASE KeyringDelete(p)
    <3>1. Head(todo[p]) \in Entries
      BY <2>2, HeadTailProperties DEF KeyringDelete
    <3> QED  BY <2>2, <3>1 DEF KeyringDelete
  <2>3. CASE KeyringGet(p) \/ FallBack(p) \/ Resolve(p) \/ Logout(p) \/ KeyringSetFails(p)
    BY <2>3 DEF KeyringGet, FallBack, Resolve, Logout, KeyringSetFails
  <2>4. CASE WriteBeside(p) \/ Rename(p) \/ RenameFails(p) \/ Kill(p)
    BY <2>4 DEF WriteBeside, Rename, RenameFails, Kill
  <2> QED  BY <2>1, <2>2, <2>3, <2>4 DEF Step, Loads
<1>2. \A f \in Files \cup {Anyone}, h \in Hosts, kind \in Kinds : <<f, h, kind>> \in Entries
  BY DEF Entries
<1>3. CASE keyring' = keyring
  BY <1>3, LoggedInByStays DEF Origins, KeyringOrigin
<1>4. CASE \E e \in Entries : keyring' = [keyring EXCEPT ![e] = NoSecret]
  BY <1>2, <1>4, LoggedInByStays, SecretsAssumption DEF Origins, KeyringOrigin
<1>5. CASE KeyringSet(p)
  <2>1. pc[p] # "idle" /\ LoggedInBy(p, cmd[p].file, host[p])
    BY <1>5 DEF KeyringSet, LoginWasChecked, LoggedInBy
  <2>2. <<cmd[p].file, host[p], cmd[p].kind>> \in Entries /\ cmd[p].file \in Files
    BY <1>5 DEF KeyringSet, HostIsKnown, Active, Ended, Entries, Command
  <2>3. keyring' = [keyring EXCEPT ![<<cmd[p].file, host[p], cmd[p].kind>>] = p]
    BY <1>5 DEF KeyringSet, CredentialKey
  <2> QED
    BY <1>2, <2>1, <2>2, <2>3, LoggedInByStays, HostsAssumption DEF Origins, KeyringOrigin
<1> QED  BY <1>1, <1>3, <1>4, <1>5

LEMMA FileOriginStays ==
  ASSUME IInv, Origins, NEW p \in Procs, Step(p)
  PROVE  FileOrigin'
<1> USE DEF IInv, TypeOK
<1>1. file' = file \/ Rename(p)
  <2>1. CASE Loads(p) \/ Refuse(p)
    BY <2>1, LoadFacts
  <2>2. CASE KeyringGet(p) \/ FallBack(p) \/ Resolve(p) \/ Logout(p)
    BY <2>2 DEF KeyringGet, FallBack, Resolve, Logout
  <2>3. CASE KeyringSet(p) \/ KeyringSetFails(p) \/ KeyringDelete(p)
    BY <2>3 DEF KeyringSet, KeyringSetFails, KeyringDelete, LogIn
  <2>4. CASE WriteBeside(p) \/ RenameFails(p) \/ Kill(p)
    BY <2>4 DEF WriteBeside, RenameFails, Kill
  <2> QED  BY <2>1, <2>2, <2>3, <2>4 DEF Step, Loads
<1>2. CASE file' = file
  BY <1>2, LoggedInByStays DEF Origins, FileOrigin
<1>3. CASE Rename(p)
  BY <1>3, LoggedInByStays DEF Rename, Origins, FileOrigin, CopyOrigin, Command
<1> QED  BY <1>1, <1>2, <1>3

LEMMA CopyOriginStays ==
  ASSUME IInv, Origins, NEW p \in Procs, Step(p)
  PROVE  CopyOrigin'
<1> USE DEF IInv, TypeOK
<1> SUFFICES ASSUME NEW q \in Procs, NEW h \in Hosts, NEW kind \in Kinds,
                    stored'[q].plain[h][kind] \in Procs
             PROVE  /\ pc'[q] # "idle" /\ pc'[stored'[q].plain[h][kind]] # "idle"
                    /\ cmd'[stored'[q].plain[h][kind]].file = cmd'[q].file
                    /\ cmd'[stored'[q].plain[h][kind]].host = h
  BY DEF CopyOrigin, LoggedInBy
<1>0. stored'[q].plain[h] \in [Kinds -> Secrets] /\ stored[q].plain[h] \in [Kinds -> Secrets]
  <2>1. TypeOK'
    BY NextIInv DEF Next
  <2> QED  BY <2>1 DEF StoredConfig
<1>1. CASE stored'[q] = stored[q]
  BY <1>1, OnceStarted DEF Origins, CopyOrigin, LoggedInBy
<1>2. CASE stored'[q] # stored[q]
  <2>1. CASE Loads(p) \/ Refuse(p)
    <3>1. PICK c \in Commands :
            /\ pc[p] = "idle" /\ cmd' = [cmd EXCEPT ![p] = c] /\ pc'[p] # "idle"
            /\ \E next : /\ stored' = [stored EXCEPT ![p] = next]
                         /\ next.plain = file[c.file].plain
      BY <1>2, <2>1, LoadFacts
    <3>2. c.file \in Files
      BY CommandsAssumption DEF Command
    <3>3. /\ q = p /\ cmd'[q] = c /\ pc'[q] # "idle"
          /\ stored'[q].plain[h][kind] = file[c.file].plain[h][kind]
      BY <1>2, <3>1
    <3>4. /\ \A s \in Procs : pc[s] # "idle" => pc'[s] # "idle" /\ cmd'[s] = cmd[s]
          /\ FileOrigin
      BY OnceStarted DEF Origins
    <3>5. stored'[q].plain[h][kind] \in Procs
      OBVIOUS
    <3> HIDE DEF IInv, TypeOK
    <3>6. LoggedInBy(file[c.file].plain[h][kind], c.file, h)
      BY <3>2, <3>3, <3>4, <3>5 DEF FileOrigin
    <3> QED  BY <3>3, <3>4, <3>5, <3>6 DEF LoggedInBy
  <2>2. CASE Logout(p)
    <3>1. host[p] \in Hosts
      BY <2>2 DEF Logout, HostIsKnown, Active, Ended
    <3>2. NoSecrets[kind] \notin Procs
      BY SecretsAssumption DEF NoSecrets
    <3>3. PICK next \in StoredConfig :
            /\ stored' = [stored EXCEPT ![p] = next]
            /\ next.plain = [stored[p].plain EXCEPT ![host[p]] = NoSecrets]
      BY <2>2, LogoutCopy
    <3>4. q = p /\ stored'[p].plain = [stored[p].plain EXCEPT ![host[p]] = NoSecrets]
      BY <1>2, <3>3
    <3>5. stored[p].plain \in [Hosts -> [Kinds -> Secrets]]
      BY DEF StoredConfig
    <3>6. h # host[p] /\ stored'[p].plain[h] = stored[p].plain[h]
      BY <3>1, <3>2, <3>4, <3>5
    <3>7. /\ \A s \in Procs : pc[s] # "idle" => pc'[s] # "idle" /\ cmd'[s] = cmd[s]
          /\ CopyOrigin /\ stored[p].plain[h][kind] \in Procs
      BY <3>4, <3>6, OnceStarted DEF Origins
    <3> HIDE DEF IInv, TypeOK
    <3> QED  BY <3>4, <3>6, <3>7 DEF CopyOrigin, LoggedInBy
  <2>3. CASE KeyringSet(p) \/ KeyringSetFails(p)
    <3>1. pc[p] = "set" /\ host[p] \in Hosts /\ LoggedInBy(p, cmd[p].file, host[p])
      BY <2>3 DEF KeyringSet, KeyringSetFails, LoginWasChecked, LoggedInBy, HostIsKnown,
         Active, Ended
    <3>2. q = p /\ (stored'[p].plain[h] = stored[p].plain[h]
                      \/ (h = host[p] /\ stored'[p].plain[h][kind] \in {p, NoSecret}))
      <4>1. PICK next, secrets :
              /\ stored' = [stored EXCEPT ![p] = next]
              /\ next.plain = [stored[p].plain EXCEPT ![host[p]] = secrets]
              /\ \A k \in Kinds : secrets[k] \in {p, NoSecret}
        BY <1>2, <2>3, LoginCopy
      <4>2. q = p /\ stored'[p].plain = [stored[p].plain EXCEPT ![host[p]] = secrets]
        BY <1>2, <4>1
      <4>3. stored[p].plain \in [Hosts -> [Kinds -> Secrets]]
        BY DEF StoredConfig
      <4> QED  BY <3>1, <4>1, <4>2, <4>3
    <3>3. /\ pc'[q] # "idle" /\ cmd'[q] = cmd[q]
          /\ \A s \in Procs : pc[s] # "idle" => pc'[s] # "idle" /\ cmd'[s] = cmd[s]
      BY <3>1, <3>2, OnceStarted
    <3>4. CASE stored'[q].plain[h][kind] = p
      BY <3>1, <3>2, <3>3, <3>4, OnceStarted DEF Origins, CopyOrigin, LoggedInBy
    <3>5. CASE stored'[q].plain[h] = stored[q].plain[h]
      BY <3>3, <3>5 DEF Origins, CopyOrigin, LoggedInBy
    <3> QED
      BY <3>2, <3>4, <3>5, SecretsAssumption
  <2>4. CASE KeyringGet(p) \/ FallBack(p) \/ Resolve(p) \/ KeyringDelete(p)
    BY <1>2, <2>4 DEF KeyringGet, FallBack, Resolve, KeyringDelete
  <2>5. CASE WriteBeside(p) \/ Rename(p) \/ RenameFails(p) \/ Kill(p)
    BY <1>2, <2>5 DEF WriteBeside, Rename, RenameFails, Kill
  <2> QED  BY <2>1, <2>2, <2>3, <2>4, <2>5 DEF Step, Loads
<1> QED  BY <1>1, <1>2

LEMMA GotOriginStays ==
  ASSUME IInv, Origins, NEW p \in Procs, Step(p)
  PROVE  GotOrigin'
<1> USE DEF IInv, TypeOK
<1> SUFFICES ASSUME NEW q \in Procs, NEW kind \in Kinds, got'[q][kind] \in Procs
             PROVE  /\ pc'[q] # "idle" /\ pc'[got'[q][kind]] # "idle"
                    /\ cmd'[got'[q][kind]].file = cmd'[q].file
                    /\ cmd'[got'[q][kind]].host = host'[q]
  BY DEF GotOrigin, LoggedInBy
<1>1. pc[q] # "idle" => host'[q] = host[q]
  <2>1. CASE Loads(p) \/ Refuse(p)
    BY <2>1 DEF Loads, Refuse, LoadLogin, AddHostAliases, SetHostAliases, RemoveHostAlias,
       SetDefaultHost, LoadLogout, LoadUse, UseUnknown, Load, Starts
  <2>2. CASE KeyringGet(p) \/ FallBack(p) \/ Resolve(p) \/ Logout(p)
    BY <2>2 DEF KeyringGet, FallBack, Resolve, Logout
  <2>3. CASE KeyringSet(p) \/ KeyringSetFails(p) \/ KeyringDelete(p)
    BY <2>3 DEF KeyringSet, KeyringSetFails, KeyringDelete, LogIn
  <2>4. CASE WriteBeside(p) \/ Rename(p) \/ RenameFails(p) \/ Kill(p)
    BY <2>4 DEF WriteBeside, Rename, RenameFails, Kill
  <2> QED  BY <2>1, <2>2, <2>3, <2>4 DEF Step, Loads
<1>2. CASE got'[q][kind] = got[q][kind]
  BY <1>1, <1>2, OnceStarted DEF Origins, GotOrigin, LoggedInBy
<1>3. CASE got'[q][kind] # got[q][kind]
  <2>1. CASE KeyringGet(p)
    <3> DEFINE e == Head(todo[p])
    <3>1. e \in Entries /\ Reads(p, e)
      <4>1. 1 \in 1..Len(todo[p]) /\ e = todo[p][1]
        BY <2>1, EmptySeq DEF KeyringGet
      <4>2. e \in Entries
        BY <2>1, HeadTailProperties DEF KeyringGet
      <4> QED  BY <2>1, <4>1, <4>2 DEF KeyringGet, Origins, ReadsItsOwn
    <3>2. PICK value \in {keyring[e], NoSecret} :
            got' = [got EXCEPT ![p] = [@ EXCEPT ![e[3]] = value]]
      BY <2>1 DEF KeyringGet
    <3> HIDE DEF e
    <3>3. q = p /\ got'[q][kind] = keyring[e]
      BY <1>3, <3>1, <3>2, SecretsAssumption
    <3>4. PICK scope \in Files \cup {Anyone}, h \in Hosts, k \in Kinds : e = <<scope, h, k>>
      BY <3>1 DEF Entries
    <3>5. h = host[p] /\ scope \in {cmd[p].file, Anyone}
      BY <3>1, <3>4 DEF Reads
    <3>6. scope \in Files /\ scope = cmd[p].file /\ LoggedInBy(keyring[e], scope, h)
      BY <3>3, <3>4, <3>5, HostsAssumption DEF Origins, KeyringOrigin
    <3>7. pc[p] # "idle"
      BY <2>1 DEF KeyringGet
    <3> QED  BY <1>1, <3>3, <3>5, <3>6, <3>7, OnceStarted DEF LoggedInBy
  <2>2. CASE Resolve(p)
    <3>1. host[p] \in Hosts /\ pc[p] # "idle"
      BY <2>2 DEF Resolve, HostIsKnown, Active, Ended
    <3>2. q = p /\ got'[q] = Filled(got[p], stored[p].plain[host[p]])
      BY <1>3, <2>2 DEF Resolve
    <3>3. got'[q][kind] = stored[p].plain[host[p]][kind]
      BY <1>3, <3>2 DEF Filled
    <3>4. /\ \A s \in Procs : pc[s] # "idle" => pc'[s] # "idle" /\ cmd'[s] = cmd[s]
          /\ CopyOrigin
      BY OnceStarted DEF Origins
    <3>5. stored[p].plain[host[p]][kind] \in Procs
      BY <3>3
    <3> HIDE DEF IInv, TypeOK
    <3>6. LoggedInBy(stored[p].plain[host[p]][kind], cmd[p].file, host[p])
      BY <3>1, <3>4, <3>5 DEF CopyOrigin
    <3> QED  BY <1>1, <3>1, <3>2, <3>3, <3>4, <3>5, <3>6 DEF LoggedInBy
  <2>3. CASE Loads(p) \/ Refuse(p)
    BY <1>3, <2>3, LoadFacts
  <2>4. CASE FallBack(p) \/ Logout(p) \/ KeyringDelete(p)
    BY <1>3, <2>4 DEF FallBack, Logout, KeyringDelete
  <2>5. CASE KeyringSet(p) \/ KeyringSetFails(p)
    BY <1>3, <2>5 DEF KeyringSet, KeyringSetFails, LogIn
  <2>6. CASE WriteBeside(p) \/ Rename(p) \/ RenameFails(p) \/ Kill(p)
    BY <1>3, <2>6 DEF WriteBeside, Rename, RenameFails, Kill
  <2> QED  BY <2>1, <2>2, <2>3, <2>4, <2>5, <2>6 DEF Step, Loads
<1> QED  BY <1>2, <1>3

LEMMA PairReads ==
  ASSUME NEW scope, NEW h
  PROVE  \A i \in 1..Len(Pair(scope, h)) :
           Pair(scope, h)[i][1] = scope /\ Pair(scope, h)[i][2] = h
<1> DEFINE a == <<scope, h, "token">>
           b == <<scope, h, "password">>
<1>1. a[1] = scope /\ a[2] = h /\ b[1] = scope /\ b[2] = h
  OBVIOUS
<1> HIDE DEF a, b
<1>2. \A i \in 1..Len(<<a, b>>) : <<a, b>>[i] \in {a, b}
  OBVIOUS
<1>3. Pair(scope, h) = <<a, b>>
  BY DEF Pair, a, b
<1> QED  BY <1>1, <1>2, <1>3

LEMMA ReadsItsOwnStays ==
  ASSUME IInv, Origins, NEW p \in Procs, Step(p)
  PROVE  ReadsItsOwn'
<1> USE DEF IInv, TypeOK
<1> SUFFICES ASSUME NEW q \in Procs, pc'[q] \in {"own", "old"}, NEW i \in 1..Len(todo'[q])
             PROVE  /\ todo'[q][i][2] = host'[q]
                    /\ todo'[q][i][1] \in {cmd'[q].file, Anyone}
  BY DEF ReadsItsOwn, Reads
<1>1. CASE LoadLogout(p) \/ LoadUse(p)
  <2>1. PICK c \in Commands, h \in Hosts \cup {NoHost} :
          Load(p, c, h, file[c.file], Pair(CredentialKey(c.file), h), "own")
    BY <1>1, FileRead, HostsAssumption
       DEF LoadLogout, LoadUse, Matches, MatchStoredHost, AliasOwners, HostsOver
  <2>2. CASE q = p
    BY <2>1, <2>2, PairReads DEF Load, Starts, CredentialKey
  <2>3. CASE q # p
    BY <2>1, <2>3 DEF Load, Starts, Origins, ReadsItsOwn, Reads
  <2> QED  BY <2>2, <2>3
<1>2. CASE \/ LoadLogin(p) \/ AddHostAliases(p) \/ SetHostAliases(p) \/ RemoveHostAlias(p)
           \/ SetDefaultHost(p) \/ UseUnknown(p)
  <2>1. PICK c, h, next : \E where \in {"set", "save", "done"} :
          Load(p, c, h, next, <<>>, where)
    <3>1. CASE SetDefaultHost(p)
      <4>1. PICK c \in Commands :
              Load(p, c, c.host, [file[c.file] EXCEPT !.default = c.host], <<>>, "save")
        BY <3>1 DEF SetDefaultHost
      <4> DEFINE next == [file[c.file] EXCEPT !.default = c.host]
      <4>2. Load(p, c, c.host, next, <<>>, "save")
        BY <4>1
      <4> HIDE DEF next
      <4> QED  BY <4>2
    <3>2. CASE LoadLogin(p)
      BY <3>2 DEF LoadLogin
    <3>3. CASE AddHostAliases(p)
      BY <3>3 DEF AddHostAliases
    <3>4. CASE SetHostAliases(p)
      BY <3>4 DEF SetHostAliases
    <3>5. CASE RemoveHostAlias(p)
      BY <3>5 DEF RemoveHostAlias
    <3>6. CASE UseUnknown(p)
      BY <3>6 DEF UseUnknown
    <3> QED  BY <1>2, <3>1, <3>2, <3>3, <3>4, <3>5, <3>6
  <2> QED  BY <2>1 DEF Load, Starts, Origins, ReadsItsOwn, Reads
<1>3. CASE Refuse(p)
  BY <1>3 DEF Refuse, Starts, Fail, Origins, ReadsItsOwn, Reads
<1>4. CASE KeyringGet(p)
  <2>1. CASE q = p
    <3>1. /\ todo'[p] = Tail(todo[p]) /\ Len(Tail(todo[p])) = Len(todo[p]) - 1
          /\ Tail(todo[p])[i] = todo[p][i + 1] /\ Len(todo[p]) \in Nat
      BY <1>4, <2>1, HeadTailProperties, LenProperties DEF KeyringGet
    <3>2. i + 1 \in 1..Len(todo[p])
      BY <2>1, <3>1
    <3>3. Reads(p, todo[p][i + 1])
      BY <1>4, <3>2 DEF KeyringGet, Origins, ReadsItsOwn
    <3> QED  BY <1>4, <2>1, <3>1, <3>3 DEF KeyringGet, Reads
  <2>2. CASE q # p
    BY <1>4, <2>2 DEF KeyringGet, Origins, ReadsItsOwn, Reads
  <2> QED  BY <2>1, <2>2
<1>5. CASE FallBack(p)
  BY <1>5, PairReads DEF FallBack, Origins, ReadsItsOwn, Reads
<1>6. CASE Resolve(p) \/ Logout(p)
  <2>1. /\ \E where \in {"done", "failed", "save"} : pc' = [pc EXCEPT ![p] = where]
        /\ cmd' = cmd /\ host' = host /\ \A r \in Procs \ {p} : todo'[r] = todo[r]
    BY <1>6 DEF Resolve, Logout, Fail
  <2> QED  BY <2>1 DEF Origins, ReadsItsOwn, Reads
<1>7. CASE KeyringSet(p) \/ KeyringSetFails(p) \/ KeyringDelete(p)
  BY <1>7 DEF KeyringSet, KeyringSetFails, KeyringDelete, LogIn, Fail, Origins, ReadsItsOwn, Reads
<1>8. CASE WriteBeside(p) \/ Rename(p) \/ RenameFails(p) \/ Kill(p)
  BY <1>8 DEF WriteBeside, Rename, RenameFails, Kill, Fail, Origins, ReadsItsOwn, Reads
<1> QED  BY <1>1, <1>2, <1>3, <1>4, <1>5, <1>6, <1>7, <1>8 DEF Step

LEMMA NextOrigins == IInv /\ Origins /\ [Next]_vars => Origins'
<1> SUFFICES ASSUME IInv, Origins, [Next]_vars PROVE Origins'
  OBVIOUS
<1>1. CASE Next
  <2>1. PICK p \in Procs : Step(p)
    BY <1>1 DEF Next
  <2> QED
    BY <2>1, KeyringOriginStays, FileOriginStays, CopyOriginStays, GotOriginStays,
       ReadsItsOwnStays DEF Origins
<1>2. CASE UNCHANGED vars
  <2> HIDE DEF IInv
  <2>1. UNCHANGED <<file, keyring, pc, cmd, host, stored, todo, got>>
    BY <1>2 DEF vars
  <2>2. KeyringOrigin' /\ FileOrigin' /\ CopyOrigin'
    BY <2>1 DEF Origins, KeyringOrigin, FileOrigin, CopyOrigin, LoggedInBy
  <2>3. GotOrigin' /\ ReadsItsOwn'
    BY <2>1 DEF Origins, GotOrigin, ReadsItsOwn, Reads, LoggedInBy
  <2> QED  BY <2>2, <2>3 DEF Origins
<1> QED  BY <1>1, <1>2

LEMMA OwnFollows == IInv /\ Origins => ActsOnItsOwn
<1> SUFFICES ASSUME IInv, Origins, NEW p \in Procs, NEW secret \in ActedOn(p) \ {Old}
             PROVE  cmd[secret].file = cmd[p].file /\ cmd[secret].host = host[p]
  BY DEF ActsOnItsOwn
<1>1. secret \in {got[p]["token"], got[p]["password"]} \ {NoSecret, Old}
  BY DEF ActedOn, ActsOn
<1>2. PICK kind \in Kinds : secret = got[p][kind]
  BY <1>1 DEF Kinds
<1>3. secret \in Procs
  BY <1>1, <1>2 DEF IInv, TypeOK, Secrets
<1> QED  BY <1>2, <1>3 DEF Origins, GotOrigin, LoggedInBy

(* Whatever overlaps, fails or dies, a command never acts on a secret      *)
(* logged in through another configuration file, or for another host than  *)
(* the one that matched (credentialKey, storedSecrets).                    *)
THEOREM OwnSecrets == Spec => []ActsOnItsOwn
<1>1. Init => IInv /\ Origins
  BY InitIInv, InitOrigins
<1>2. IInv /\ Origins /\ [Next]_vars => (IInv /\ Origins)'
  BY NextIInv, NextOrigins
<1> QED  BY <1>1, <1>2, OwnFollows, PTL DEF Spec

----------------------------------------------------------------------------
(* Where each secret was put, and which host a command's secret is for.    *)

(* A login whose secret the keyring took, and one whose secret it did not.  *)
(* Its own copy of the file tells, which nothing changes any more.          *)
LogInDone(s) == pc[s] \notin {"idle", "set"} /\ cmd[s].op = "login" /\ cmd[s].host \in Hosts
OwnPlain(s) == stored[s].plain[cmd[s].host][cmd[s].kind]
PutInKeyring(s) == LogInDone(s) /\ OwnPlain(s) # s
PutInFile(s) == LogInDone(s) /\ OwnPlain(s) = s /\ PlaintextAllowed(cmd[s])

KeyringHolds == \A e \in Entries : keyring[e] \in Procs => PutInKeyring(keyring[e])
FilesHold ==
  \A f \in Files, h \in Hosts, kind \in Kinds :
    file[f].plain[h][kind] # NoSecret =>
      file[f].plain[h][kind] \in Procs /\ PutInFile(file[f].plain[h][kind])
CopiesHold ==
  \A p \in Procs, h \in Hosts, kind \in Kinds :
    stored[p].plain[h][kind] # NoSecret =>
      stored[p].plain[h][kind] \in Procs /\ PutInFile(stored[p].plain[h][kind])
GotHolds ==
  \A p \in Procs, kind \in Kinds :
    got[p][kind] \in Procs =>
      \/ PutInKeyring(got[p][kind])
      \/ pc[p] \in Ended /\ ~cmd[p].require /\ PutInFile(got[p][kind])

(* The host a command reads a secret for matched the one asked for, in the *)
(* copy of the file it still has.                                          *)
UseMatched ==
  \A p \in Procs : pc[p] # "idle" /\ cmd[p].op = "use" =>
    host[p] = NoHost \/ host[p] \in Matches(stored[p], cmd[p])

Placed == KeyringHolds /\ FilesHold /\ CopiesHold /\ GotHolds /\ UseMatched

LEMMA InitPlaced == Init => Placed
<1> SUFFICES ASSUME Init PROVE Placed
  OBVIOUS
<1> USE DEF Init
<1>1. \A p \in Procs : cmd[p].file \in Files
  BY CommandsAssumption DEF Command
<1>2. \A f \in Files, h \in Hosts, kind \in Kinds : Upgraded(f).plain[h][kind] = NoSecret
  BY DEF Upgraded, NoSecrets
<1>3. FilesHold /\ CopiesHold
  BY <1>1, <1>2 DEF FilesHold, CopiesHold
<1>4. KeyringHolds /\ GotHolds /\ UseMatched
  BY SecretsAssumption DEF KeyringHolds, GotHolds, UseMatched, NoSecrets
<1> QED  BY <1>3, <1>4 DEF Placed

(* A login that has put its secret somewhere only writes its copy.         *)
LEMMA LogInDoneStays ==
  ASSUME IInv, NEW p \in Procs, Step(p), NEW s \in Procs, LogInDone(s)
  PROVE  LogInDone(s)' /\ cmd'[s] = cmd[s] /\ stored'[s] = stored[s]
<1> USE DEF IInv, TypeOK, LogInDone
<1>1. cmd'[s] = cmd[s] /\ pc'[s] # "idle"
  BY OnceStarted
<1>2. CASE Loads(p) \/ Refuse(p)
  <2>1. /\ p # s /\ \E where : pc' = [pc EXCEPT ![p] = where]
        /\ stored' = stored \/ \E next : stored' = [stored EXCEPT ![p] = next]
    BY <1>2, LoadFacts
  <2> QED  BY <1>1, <2>1
<1>3. CASE KeyringGet(p) \/ FallBack(p) \/ Resolve(p)
  BY <1>1, <1>3 DEF KeyringGet, FallBack, Resolve, Fail
<1>4. CASE Logout(p)
  <2>1. p # s /\ pc' = [pc EXCEPT ![p] = "save"]
    BY <1>4 DEF Logout
  <2> QED  BY <1>1, <1>4, <2>1, LogoutCopy
<1>5. CASE KeyringSet(p) \/ KeyringSetFails(p)
  <2>1. p # s /\ \E where \in {"save", "failed"} : pc' = [pc EXCEPT ![p] = where]
    BY <1>5 DEF KeyringSet, KeyringSetFails, LogIn, Fail
  <2>2. \A q \in Procs : q # p => stored'[q] = stored[q]
    BY <1>5, LoginCopy
  <2> QED  BY <1>1, <2>1, <2>2
<1>6. CASE KeyringDelete(p) \/ WriteBeside(p) \/ Rename(p) \/ RenameFails(p) \/ Kill(p)
  BY <1>1, <1>6 DEF KeyringDelete, WriteBeside, Rename, RenameFails, Kill, Fail
<1> QED  BY <1>2, <1>3, <1>4, <1>5, <1>6 DEF Step, Loads

LEMMA PutStays ==
  ASSUME IInv, NEW p \in Procs, Step(p), NEW s \in Procs
  PROVE  (PutInKeyring(s) => PutInKeyring(s)') /\ (PutInFile(s) => PutInFile(s)')
  BY LogInDoneStays DEF PutInKeyring, PutInFile, OwnPlain

(* What a login does at its one decisive step.                             *)
LEMMA LogInPuts ==
  ASSUME IInv, CopiesHold, NEW p \in Procs, NEW secrets \in [Kinds -> Secrets],
         pc[p] = "set", LogIn(p, secrets)
  PROVE  /\ pc'[p] = "save" /\ cmd' = cmd
         /\ LogInDone(p)' /\ OwnPlain(p)' = secrets[cmd[p].kind]
<1> USE DEF IInv, TypeOK
<1>1. cmd[p].op = "login" /\ cmd[p].host = host[p] /\ host[p] \in Hosts
  BY DEF LoginWasChecked, HostIsKnown, Active, Ended
<1>2. pc'[p] = "save" /\ cmd' = cmd
  BY DEF LogIn
<1>3. stored[p] \in StoredConfig /\ cmd[p] \in Command
  OBVIOUS
<1>4. stored'[p] = LoggedIn(stored[p], cmd[p], secrets)
  BY DEF LogIn
<1>5. stored'[p].plain[host[p]] = secrets
  BY <1>1, <1>3, <1>4 DEF LoggedIn, StoredConfig
<1> QED  BY <1>1, <1>2, <1>3, <1>5 DEF LogInDone, OwnPlain, Command

LEMMA KeyringHoldsStays ==
  ASSUME IInv, Placed, NEW p \in Procs, Step(p)
  PROVE  KeyringHolds'
<1> USE DEF IInv, TypeOK
<1>1. \/ keyring' = keyring
      \/ \E e \in Entries : keyring' = [keyring EXCEPT ![e] = NoSecret]
      \/ KeyringSet(p)
  <2>1. CASE Loads(p) \/ Refuse(p)
    BY <2>1, LoadFacts
  <2>2. CASE KeyringDelete(p)
    <3>1. Head(todo[p]) \in Entries
      BY <2>2, HeadTailProperties DEF KeyringDelete
    <3> QED  BY <2>2, <3>1 DEF KeyringDelete
  <2>3. CASE KeyringGet(p) \/ FallBack(p) \/ Resolve(p) \/ Logout(p) \/ KeyringSetFails(p)
    BY <2>3 DEF KeyringGet, FallBack, Resolve, Logout, KeyringSetFails
  <2>4. CASE WriteBeside(p) \/ Rename(p) \/ RenameFails(p) \/ Kill(p)
    BY <2>4 DEF WriteBeside, Rename, RenameFails, Kill
  <2> QED  BY <2>1, <2>2, <2>3, <2>4 DEF Step, Loads
<1>2. CASE keyring' = keyring
  BY <1>2, PutStays DEF Placed, KeyringHolds
<1>3. CASE \E e \in Entries : keyring' = [keyring EXCEPT ![e] = NoSecret]
  BY <1>3, PutStays, SecretsAssumption DEF Placed, KeyringHolds
<1>4. CASE KeyringSet(p)
  <2>1. PutInKeyring(p)'
    <3>1. NoSecrets \in [Kinds -> Secrets] /\ pc[p] = "set" /\ LogIn(p, NoSecrets)
      BY <1>4, NoSecretsType DEF KeyringSet
    <3>2. cmd[p].kind \in Kinds
      BY DEF Command
    <3>3. NoSecrets[cmd[p].kind] # p
      BY <3>2, SecretsAssumption DEF NoSecrets
    <3> QED  BY <3>1, <3>3, LogInPuts DEF Placed, PutInKeyring
  <2>2. \A e \in Entries : keyring'[e] \in {keyring[e], p}
    BY <1>4 DEF KeyringSet
  <2> QED  BY <2>1, <2>2, PutStays DEF Placed, KeyringHolds
<1> QED  BY <1>1, <1>2, <1>3, <1>4

LEMMA FilesHoldStays ==
  ASSUME IInv, Placed, NEW p \in Procs, Step(p)
  PROVE  FilesHold'
<1> USE DEF IInv, TypeOK
<1>1. file' = file \/ Rename(p)
  <2>1. CASE Loads(p) \/ Refuse(p)
    BY <2>1, LoadFacts
  <2>2. CASE KeyringGet(p) \/ FallBack(p) \/ Resolve(p) \/ Logout(p)
    BY <2>2 DEF KeyringGet, FallBack, Resolve, Logout
  <2>3. CASE KeyringSet(p) \/ KeyringSetFails(p) \/ KeyringDelete(p)
    BY <2>3 DEF KeyringSet, KeyringSetFails, KeyringDelete, LogIn
  <2>4. CASE WriteBeside(p) \/ RenameFails(p) \/ Kill(p)
    BY <2>4 DEF WriteBeside, RenameFails, Kill
  <2> QED  BY <2>1, <2>2, <2>3, <2>4 DEF Step, Loads
<1>2. CASE file' = file
  BY <1>2, PutStays DEF Placed, FilesHold
<1>3. CASE Rename(p)
  <2>1. \A f \in Files : file'[f] \in {file[f], stored[p]}
    BY <1>3 DEF Rename
  <2> QED  BY <2>1, PutStays DEF Placed, FilesHold, CopiesHold
<1> QED  BY <1>1, <1>2, <1>3

LEMMA CopiesHoldStays ==
  ASSUME IInv, Placed, NEW p \in Procs, Step(p)
  PROVE  CopiesHold'
<1> USE DEF IInv, TypeOK
<1> SUFFICES ASSUME NEW q \in Procs, NEW h \in Hosts, NEW kind \in Kinds,
                    NEW s, s = stored'[q].plain[h][kind], s # NoSecret
             PROVE  s \in Procs /\ PutInFile(s)'
  BY DEF CopiesHold
<1>1. CASE stored'[q] = stored[q]
  BY <1>1, PutStays DEF Placed, CopiesHold
<1>2. CASE stored'[q] # stored[q]
  <2>1. CASE Loads(p) \/ Refuse(p)
    <3>1. PICK c \in Commands : \E next : /\ stored' = [stored EXCEPT ![p] = next]
                                         /\ next.plain = file[c.file].plain
      <4> HIDE DEF IInv, TypeOK
      <4>1. stored' # stored
        BY <1>2
      <4> QED  BY <2>1, <4>1, LoadFacts
    <3>2. c.file \in Files /\ stored'[q].plain = file[c.file].plain
      BY <1>2, <3>1, CommandsAssumption DEF Command
    <3>3. s \in Procs /\ PutInFile(s)
      BY <3>2 DEF Placed, FilesHold
    <3> HIDE DEF IInv, TypeOK
    <3> QED  BY <3>3, PutStays
  <2>2. CASE Logout(p)
    <3>1. NoSecrets[kind] = NoSecret
      BY DEF NoSecrets
    <3>2. q = p /\ stored'[p].plain = [stored[p].plain EXCEPT ![host[p]] = NoSecrets]
      BY <1>2, <2>2, LogoutCopy
    <3>3. stored[p].plain \in [Hosts -> [Kinds -> Secrets]]
      BY DEF StoredConfig
    <3>4. stored'[p].plain[h] = stored[p].plain[h]
      BY <3>1, <3>2, <3>3
    <3> QED  BY <3>2, <3>4, PutStays DEF Placed, CopiesHold
  <2>3. CASE KeyringSet(p) \/ KeyringSetFails(p)
    <3>1. PICK secrets \in [Kinds -> Secrets] :
            /\ pc[p] = "set" /\ LogIn(p, secrets)
            /\ \A k \in Kinds : secrets[k] # NoSecret =>
                 secrets[k] = p /\ k = cmd[p].kind /\ PlaintextAllowed(cmd[p])
      <4>1. CASE KeyringSet(p)
        BY <4>1, NoSecretsType DEF KeyringSet, NoSecrets
      <4>2. CASE KeyringSetFails(p)
        <5> DEFINE secrets == [NoSecrets EXCEPT ![cmd[p].kind] = p]
        <5>1. PlaintextAllowed(cmd[p])
          BY <1>2, <4>2 DEF KeyringSetFails
        <5>2. secrets \in [Kinds -> Secrets]
          BY NoSecretsType DEF Secrets
        <5>3. \A k \in Kinds : secrets[k] # NoSecret => secrets[k] = p /\ k = cmd[p].kind
          BY DEF NoSecrets
        <5>4. pc[p] = "set" /\ LogIn(p, secrets)
          BY <4>2, <5>1 DEF KeyringSetFails
        <5> HIDE DEF secrets
        <5> QED  BY <5>1, <5>2, <5>3, <5>4
      <4> QED  BY <2>3, <4>1, <4>2
    <3>2. q = p /\ stored'[p] = LoggedIn(stored[p], cmd[p], secrets)
      BY <1>2, <3>1 DEF LogIn
    <3>3. LogInDone(p)' /\ OwnPlain(p)' = secrets[cmd[p].kind] /\ cmd' = cmd
      BY <3>1, LogInPuts DEF Placed
    <3>4. stored[p].plain \in [Hosts -> [Kinds -> Secrets]]
      BY DEF StoredConfig
    <3>5. stored'[p].plain = [stored[p].plain EXCEPT ![cmd[p].host] = secrets]
      BY <3>2 DEF LoggedIn
    <3>6. stored'[p].plain[h] = stored[p].plain[h] \/ stored'[p].plain[h] = secrets
      BY <3>4, <3>5
    <3>7. CASE stored'[p].plain[h] = stored[p].plain[h]
      BY <3>2, <3>7, PutStays DEF Placed, CopiesHold
    <3>8. CASE stored'[p].plain[h] = secrets
      <4>1. secrets[kind] = p /\ secrets[cmd[p].kind] = p /\ PlaintextAllowed(cmd[p])
        BY <3>1, <3>2, <3>8
      <4> QED  BY <3>2, <3>3, <3>8, <4>1 DEF PutInFile
    <3> QED  BY <3>6, <3>7, <3>8
  <2>4. CASE KeyringGet(p) \/ FallBack(p) \/ Resolve(p) \/ KeyringDelete(p)
    BY <1>2, <2>4 DEF KeyringGet, FallBack, Resolve, KeyringDelete
  <2>5. CASE WriteBeside(p) \/ Rename(p) \/ RenameFails(p) \/ Kill(p)
    BY <1>2, <2>5 DEF WriteBeside, Rename, RenameFails, Kill
  <2> QED  BY <2>1, <2>2, <2>3, <2>4, <2>5 DEF Step, Loads
<1> QED  BY <1>1, <1>2

LEMMA GotHoldsStays ==
  ASSUME IInv, Placed, NEW p \in Procs, Step(p)
  PROVE  GotHolds'
<1> USE DEF IInv, TypeOK
<1> SUFFICES ASSUME NEW q \in Procs, NEW kind \in Kinds,
                    NEW s \in Procs, s = got'[q][kind]
             PROVE  \/ PutInKeyring(s)'
                    \/ pc'[q] \in Ended /\ ~cmd'[q].require /\ PutInFile(s)'
  BY DEF GotHolds
<1>1. pc[q] \in Ended => pc'[q] \in Ended /\ cmd'[q] = cmd[q]
  <2>1. pc[q] \in Ended => cmd'[q] = cmd[q]
    BY OnceStarted DEF Ended
  <2>2. CASE Loads(p) \/ Refuse(p)
    BY <2>1, <2>2, LoadFacts DEF Ended
  <2>3. CASE KeyringGet(p) \/ FallBack(p) \/ Resolve(p) \/ Logout(p)
    BY <2>1, <2>3 DEF KeyringGet, FallBack, Resolve, Logout, Fail, Ended
  <2>4. CASE KeyringSet(p) \/ KeyringSetFails(p) \/ KeyringDelete(p)
    BY <2>1, <2>4 DEF KeyringSet, KeyringSetFails, KeyringDelete, LogIn, Fail, Ended
  <2>5. CASE WriteBeside(p) \/ Rename(p) \/ RenameFails(p) \/ Kill(p)
    BY <2>1, <2>5 DEF WriteBeside, Rename, RenameFails, Kill, Fail, Ended
  <2> QED  BY <2>2, <2>3, <2>4, <2>5 DEF Step, Loads
<1>2. CASE got'[q][kind] = got[q][kind]
  BY <1>1, <1>2, PutStays DEF Placed, GotHolds
<1>3. CASE got'[q][kind] # got[q][kind]
  <2>1. CASE KeyringGet(p)
    <3> DEFINE e == Head(todo[p])
    <3>1. e \in Entries
      BY <2>1, HeadTailProperties DEF KeyringGet
    <3>2. PICK value \in {keyring[e], NoSecret} :
            got' = [got EXCEPT ![p] = [@ EXCEPT ![e[3]] = value]]
      BY <2>1 DEF KeyringGet
    <3> HIDE DEF e
    <3>3. got'[q][kind] = keyring[e]
      BY <1>3, <3>1, <3>2, SecretsAssumption
    <3> QED  BY <3>1, <3>3, PutStays DEF Placed, KeyringHolds
  <2>2. CASE Resolve(p)
    <3> DEFINE filled == Filled(got[p], stored[p].plain[host[p]])
    <3>1. host[p] \in Hosts
      BY <2>2 DEF Resolve, HostIsKnown, Active, Ended
    <3>2. q = p /\ got'[q] = filled
      BY <1>3, <2>2 DEF Resolve
    <3>3. filled # got[p]
      BY <1>3, <3>2
    <3>4. ~cmd[p].require /\ pc'[p] = "done" /\ cmd' = cmd
      BY <1>3, <2>2, <3>2, <3>3 DEF Resolve
    <3>5. got'[q][kind] = stored[p].plain[host[p]][kind]
      BY <1>3, <3>2 DEF Filled
    <3> QED  BY <3>1, <3>2, <3>4, <3>5, PutStays, SecretsAssumption
             DEF Placed, CopiesHold, Ended
  <2>3. CASE Loads(p) \/ Refuse(p)
    BY <1>3, <2>3, LoadFacts
  <2>4. CASE FallBack(p) \/ Logout(p) \/ KeyringDelete(p)
    BY <1>3, <2>4 DEF FallBack, Logout, KeyringDelete
  <2>5. CASE KeyringSet(p) \/ KeyringSetFails(p)
    BY <1>3, <2>5 DEF KeyringSet, KeyringSetFails, LogIn
  <2>6. CASE WriteBeside(p) \/ Rename(p) \/ RenameFails(p) \/ Kill(p)
    BY <1>3, <2>6 DEF WriteBeside, Rename, RenameFails, Kill
  <2> QED  BY <2>1, <2>2, <2>3, <2>4, <2>5, <2>6 DEF Step, Loads
<1> QED  BY <1>2, <1>3

LEMMA UseMatchedStays ==
  ASSUME IInv, Placed, NEW p \in Procs, Step(p)
  PROVE  UseMatched'
<1> USE DEF IInv, TypeOK
<1> SUFFICES ASSUME NEW q \in Procs, pc'[q] # "idle", cmd'[q].op = "use"
             PROVE  host'[q] = NoHost \/ host'[q] \in Matches(stored'[q], cmd'[q])
  BY DEF UseMatched, Matches, Target, MatchStoredHost, AliasOwners, HostsOver
<1>1. CASE pc[q] # "idle" /\ host'[q] = host[q] /\ stored'[q] = stored[q]
  BY <1>1, OnceStarted DEF Placed, UseMatched
<1>2. CASE LoadUse(p)
  BY <1>1, <1>2 DEF LoadUse, Load, Starts
<1>3. CASE UseUnknown(p)
  BY <1>1, <1>3 DEF UseUnknown, Load, Starts
<1>4. CASE \/ LoadLogin(p) \/ AddHostAliases(p) \/ SetHostAliases(p) \/ RemoveHostAlias(p)
           \/ SetDefaultHost(p) \/ LoadLogout(p)
  <2>1. /\ pc[p] = "idle" /\ cmd'[p].op # "use" /\ \A r \in Procs \ {p} :
             pc'[r] = pc[r] /\ host'[r] = host[r] /\ stored'[r] = stored[r]
    <3>1. CASE LoadLogin(p) \/ LoadLogout(p)
      BY <3>1 DEF LoadLogin, LoadLogout, Load, Starts
    <3>2. CASE AddHostAliases(p) \/ SetHostAliases(p)
      BY <3>2 DEF AddHostAliases, SetHostAliases, Load, Starts
    <3>3. CASE RemoveHostAlias(p) \/ SetDefaultHost(p)
      BY <3>3 DEF RemoveHostAlias, SetDefaultHost, Load, Starts
    <3> QED  BY <1>4, <3>1, <3>2, <3>3
  <2> QED  BY <1>1, <2>1
<1>5. CASE Refuse(p)
  <2>1. /\ cmd'[p].op # "use" /\ host' = host /\ stored' = stored
        /\ \A r \in Procs \ {p} : pc'[r] = pc[r]
    BY <1>5 DEF Refuse, Starts, Fail, Accepts
  <2> QED  BY <1>1, <2>1
<1>6. CASE KeyringGet(p) \/ FallBack(p) \/ Resolve(p)
  BY <1>1, <1>6 DEF KeyringGet, FallBack, Resolve, Fail
<1>7. CASE Logout(p)
  BY <1>1, <1>7 DEF Logout
<1>8. CASE KeyringSet(p) \/ KeyringSetFails(p)
  BY <1>1, <1>8 DEF KeyringSet, KeyringSetFails, LogIn, Fail, LoginWasChecked
<1>9. CASE KeyringDelete(p) \/ WriteBeside(p) \/ Rename(p) \/ RenameFails(p) \/ Kill(p)
  BY <1>1, <1>9 DEF KeyringDelete, WriteBeside, Rename, RenameFails, Kill, Fail, Active, Ended
<1> QED  BY <1>2, <1>3, <1>4, <1>5, <1>6, <1>7, <1>8, <1>9 DEF Step

LEMMA NextPlaced == IInv /\ Placed /\ [Next]_vars => Placed'
<1> SUFFICES ASSUME IInv, Placed, [Next]_vars PROVE Placed'
  OBVIOUS
<1>1. CASE Next
  <2>1. PICK p \in Procs : Step(p)
    BY <1>1 DEF Next
  <2> QED
    BY <2>1, KeyringHoldsStays, FilesHoldStays, CopiesHoldStays, GotHoldsStays,
       UseMatchedStays DEF Placed
<1>2. CASE UNCHANGED vars
  <2>1. \A s : PutInKeyring(s)' = PutInKeyring(s) /\ PutInFile(s)' = PutInFile(s)
    BY <1>2 DEF vars, PutInKeyring, PutInFile, LogInDone, OwnPlain
  <2>2. KeyringHolds' /\ FilesHold' /\ CopiesHold' /\ GotHolds'
    BY <1>2, <2>1 DEF vars, Placed, KeyringHolds, FilesHold, CopiesHold, GotHolds
  <2>3. UseMatched'
    BY <1>2 DEF vars, Placed, UseMatched
  <2> QED  BY <2>2, <2>3 DEF Placed
<1> QED  BY <1>1, <1>2

LEMMA PlacedAlways == Spec => [](IInv /\ Origins /\ Placed)
<1>1. Init => IInv /\ Origins /\ Placed
  BY InitIInv, InitOrigins, InitPlaced
<1>2. IInv /\ Origins /\ Placed /\ [Next]_vars => (IInv /\ Origins /\ Placed)'
  BY NextIInv, NextOrigins, NextPlaced
<1> QED  BY <1>1, <1>2, PTL DEF Spec

(* No secret is released over http that was stored over https, unless an   *)
(* alias of that host says so (matchStoredHost).                           *)
THEOREM NotInTheClear == Spec => []NeverInTheClear
<1>1. ASSUME IInv, Origins, Placed PROVE NeverInTheClear
  <2> SUFFICES ASSUME NEW p \in Procs, NEW secret \in ActedOn(p) \cap Procs,
                      PlainOf[cmd[secret].host] = Target(stored[p], cmd[p])
               PROVE  Endpoint[Target(stored[p], cmd[p])]
                        \in stored[p].aliases[cmd[secret].host]
    BY DEF NeverInTheClear
  <2> DEFINE asked == Target(stored[p], cmd[p])
             h == cmd[secret].host
  <2>1. pc[p] = "done" /\ cmd[p].op = "use"
    BY DEF ActedOn
  <2>2. PICK kind \in Kinds : secret = got[p][kind]
    BY DEF ActedOn, ActsOn, Kinds
  <2>3. h = host[p] /\ h \in Hosts
    BY <1>1, <2>2 DEF Origins, GotOrigin, LoggedInBy, Placed, GotHolds, PutInKeyring,
       PutInFile, LogInDone
  <2>4. h \in Matches(stored[p], cmd[p])
    BY <1>1, <2>1, <2>3, HostsAssumption DEF Placed, UseMatched
  <2>5. asked # NoHost /\ h \in MatchStoredHost(stored[p], asked)
    BY <2>4 DEF Matches
  <2>6. asked \in Hosts
    BY <1>1, <2>5 DEF IInv, TypeOK, StoredConfig, Command, Target
  <2>7. PlainOf[h] = asked /\ h # asked /\ PlainOf[asked] # h
    BY <2>3, <2>5, <2>6, HostsAssumption
  <2> HIDE DEF asked, h
  <2>8. Endpoint[asked] \in stored[p].aliases[h]
    BY <2>5, <2>7 DEF MatchStoredHost, AliasOwners, HostsOver
  <2> QED  BY <2>8 DEF asked, h
<1> QED  BY <1>1, PlacedAlways, PTL

(* Plaintext reaches a file only from a login that allowed it, and no       *)
(* command that requires the keyring acts on any (plaintextRefusal,         *)
(* refuseStoredPlaintext).                                                 *)
THEOREM KeyringIsRequired == Spec => []KeyringRequired
<1>1. ASSUME IInv, Placed PROVE KeyringRequired
  <2>1. ASSUME NEW f \in Files, NEW secret \in InPlaintext(file[f])
        PROVE  PlaintextAllowed(cmd[secret])
    BY <1>1, <2>1 DEF InPlaintext, Placed, FilesHold, PutInFile
  <2>2. ASSUME NEW p \in Procs, cmd[p].require,
               NEW secret \in ActedOn(p) \cap InPlaintext(stored[p])
        PROVE  FALSE
    <3>1. secret \in Procs /\ PutInFile(secret)
      BY <1>1 DEF InPlaintext, Placed, CopiesHold
    <3>2. PICK kind \in Kinds : secret = got[p][kind]
      BY DEF ActedOn, ActsOn, Kinds
    <3>3. PutInKeyring(secret)
      BY <1>1, <2>2, <3>1, <3>2 DEF Placed, GotHolds
    <3> QED  BY <3>1, <3>3 DEF PutInKeyring, PutInFile
  <2> QED  BY <2>1, <2>2 DEF KeyringRequired
<1> QED  BY <1>1, PlacedAlways, PTL
=============================================================================
