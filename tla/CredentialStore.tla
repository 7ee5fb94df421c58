-------------------------- MODULE CredentialStore --------------------------
(***************************************************************************)
(* bb's stored logins (internal/config/config.go): the configuration files *)
(* on a machine, each naming Bitbucket hosts with their aliases and maybe  *)
(* plaintext secrets, and the one OS keyring all of them share.            *)
(*                                                                         *)
(* Every command is a process of its own.  It reads its file whole,        *)
(* changes the copy in its memory, talks to the keyring one entry at a     *)
(* time, and replaces the file with its copy by a rename.  Nothing locks   *)
(* the file or the keyring between those steps.                            *)
(*                                                                         *)
(* A secret is named by the process whose login stored it.                 *)
(***************************************************************************)
EXTENDS Naturals, Sequences

CONSTANTS
  Procs,        \* the bb commands that run while we look
  Files,        \* configuration files, by BB_CONFIG_PATH
  Hosts,        \* hostKeys: scheme and host
  Aliases,      \* the endpoints (host:port) a host can be recognised by
  Endpoint,     \* normalizeAlias of a host's own URL
  PlainOf,      \* hostKeyOverHTTP: https host -> the same host over http
  Commands,     \* the commands people may run
  Before,       \* <<file, host>> pairs logged in before keys named the file
  KeyringFails, \* keyring calls that can fail, among "set", "get", "delete"
  SaveFails,    \* whether writing the configuration file can fail
  Crashes,      \* whether a command can be killed
  Overlap,      \* whether two commands that write one file can overlap
  Anyone,       \* the scope of a keyring entry keyed by the host alone
  Old,          \* the secret such an entry has held since before
  NoHost, NoSecret, Nobody, Unsure

Kinds == {"token", "password"}
Other(kind) == IF kind = "token" THEN "password" ELSE "token"
Entries == (Files \cup {Anyone}) \X Hosts \X Kinds
Secrets == Procs \cup {Old, NoSecret}
NoSecrets == [kind \in Kinds |-> NoSecret]

Command == [op : {"login", "logout", "addAliases", "setAliases",
                  "removeAlias", "setDefault", "use"},
            file : Files, host : Hosts \cup {NoHost}, kind : Kinds,
            aliases : SUBSET Aliases, allow : BOOLEAN, require : BOOLEAN,
            default : BOOLEAN]

(* StoredConfig: what one file says.                                       *)
StoredConfig == [hosts : SUBSET Hosts, default : Hosts \cup {NoHost},
                 aliases : [Hosts -> SUBSET Aliases],
                 plain : [Hosts -> [Kinds -> Secrets]]]

ASSUME CommandsAssumption ==
  /\ Commands \subseteq Command /\ Commands # {}
  /\ \A c \in Commands : c.host = NoHost => c.op \in {"logout", "use"}
ASSUME HostsAssumption ==
  /\ Endpoint \in [Hosts -> Aliases]
  /\ PlainOf \in [Hosts -> Hosts \cup {NoHost}]
  /\ Before \subseteq Files \X Hosts
  /\ NoHost \notin Hosts /\ Anyone \notin Files
  /\ \A h \in Hosts : PlainOf[h] # NoHost => PlainOf[PlainOf[h]] = NoHost
ASSUME SecretsAssumption ==
  /\ Old \notin Procs /\ NoSecret \notin Procs /\ Old # NoSecret
  /\ {Nobody, Unsure} \cap Secrets = {} /\ Nobody # Unsure
ASSUME FaultsAssumption ==
  /\ KeyringFails \subseteq {"set", "get", "delete"}
  /\ SaveFails \in BOOLEAN /\ Crashes \in BOOLEAN /\ Overlap \in BOOLEAN

VARIABLES
  file,     \* the configuration files
  keyring,  \* the keyring's entries
  pc,       \* where each command is
  cmd,      \* what it was asked to do
  host,     \* the host it resolved
  stored,   \* its copy of the file
  todo,     \* the keyring entries it has yet to read or delete
  got,      \* the secrets it read
  holds     \* history: whose login each file holds for each host

vars == <<file, keyring, pc, cmd, host, stored, todo, got, holds>>

----------------------------------------------------------------------------
(* What the code computes on a StoredConfig.                               *)

Upgraded(f) ==
  LET before == {h \in Hosts : <<f, h>> \in Before}
  IN [hosts |-> before,
      default |-> IF before = {} THEN NoHost ELSE CHOOSE h \in before : TRUE,
      aliases |-> [h \in Hosts |-> {}],
      plain |-> [h \in Hosts |-> NoSecrets]]

(* ensureAliasOwnership: no other host of the file has one of them.        *)
OwnsAliases(s, h, aliases) ==
  \A other \in s.hosts \ {h} : s.aliases[other] \cap aliases = {}

(* SaveLogin's changes: the host is stored, its aliases merged, and its    *)
(* plaintext secret is the one given or none.                              *)
LoggedInAfresh(s, c, secrets) ==
  [hosts |-> s.hosts \cup {c.host},
   default |-> IF c.default \/ s.default = NoHost THEN c.host ELSE s.default,
   aliases |-> [s.aliases EXCEPT ![c.host] = c.aliases],
   plain |-> [s.plain EXCEPT ![c.host] = secrets]]

LoggedIn(s, c, secrets) ==
  [hosts |-> s.hosts \cup {c.host},
   default |-> IF c.default \/ s.default = NoHost THEN c.host ELSE s.default,
   aliases |-> [s.aliases EXCEPT ![c.host] = @ \cup c.aliases],
   plain |-> [s.plain EXCEPT ![c.host] = secrets]]

(* Logout's changes.  A default that logs out is replaced by any host      *)
(* left, the one Go's map iteration happens to give.                       *)
LoggedOut(s, h, next) ==
  [hosts |-> s.hosts \ {h},
   default |-> IF s.default = h THEN next ELSE s.default,
   aliases |-> [s.aliases EXCEPT ![h] = {}],
   plain |-> [s.plain EXCEPT ![h] = NoSecrets]]

NoNext(s, h) == {NoHost}

Nexts(s, h) == IF s.hosts \subseteq {h} THEN {NoHost} ELSE s.hosts \ {h}

(* matchStoredHost: the host itself, one that has it as an alias, or the   *)
(* same host stored over http and asked for over https.                    *)
HostsEitherWay(s, h) == {o \in s.hosts : PlainOf[h] = o \/ PlainOf[o] = h}

HostsOver(s, h) == IF PlainOf[h] \in s.hosts THEN {PlainOf[h]} ELSE {}
AliasOwners(s, h) == {o \in s.hosts : Endpoint[h] \in s.aliases[o]}
MatchStoredHost(s, h) ==
  IF h \in s.hosts THEN {h}
  ELSE IF AliasOwners(s, h) # {} THEN AliasOwners(s, h)
  ELSE HostsOver(s, h)

(* credentialKey: the scope of a file's own keyring entries.               *)
KeyedByHost(f) == Anyone

CredentialKey(f) == f
Pair(scope, h) == <<<<scope, h, "token">>, <<scope, h, "password">>>>

(* credentialsForStoredHost: plaintext fills only what the keyring lacks.  *)
Filled(secrets, plain) ==
  [kind \in Kinds |-> IF secrets[kind] = NoSecret THEN plain[kind] ELSE secrets[kind]]

(* AppConfig.AuthMode: a token outranks a password.                        *)
ActsOn(secrets) ==
  IF secrets["token"] # NoSecret THEN secrets["token"] ELSE secrets["password"]

(* plaintextRefusal lets a secret the keyring could not hold into the file. *)
PlaintextAllowed(c) == c.allow /\ ~c.require

----------------------------------------------------------------------------
Ended == {"done", "failed", "killed"}
Active(p) == pc[p] \notin Ended \cup {"idle"}
Fail(p) == pc' = [pc EXCEPT ![p] = "failed"]

Init ==
  /\ file = [f \in Files |-> Upgraded(f)]
  /\ keyring = [e \in Entries |->
                  IF e[1] = Anyone /\ e[3] = "token" /\ \E f \in Files : <<f, e[2]>> \in Before
                  THEN Old ELSE NoSecret]
  /\ pc = [p \in Procs |-> "idle"]
  /\ cmd \in [Procs -> {CHOOSE c \in Commands : TRUE}]
  /\ host = [p \in Procs |-> NoHost]
  /\ stored = [p \in Procs |-> Upgraded(cmd[p].file)]
  /\ todo = [p \in Procs |-> <<>>]
  /\ got = [p \in Procs |-> NoSecrets]
  /\ holds = [f \in Files |-> [h \in Hosts |-> IF <<f, h>> \in Before THEN Old ELSE Nobody]]

(* Somebody starts a command.  Reads may start at any time; whether a      *)
(* command that writes may start beside another of its file is Overlap.    *)
Starts(p, c) ==
  /\ pc[p] = "idle"
  /\ \/ Overlap \/ c.op = "use"
     \/ \A q \in Procs : Active(q) /\ cmd[q].file = c.file => cmd[q].op = "use"
  /\ cmd' = [cmd EXCEPT ![p] = c]

Target(s, c) == IF c.host = NoHost THEN s.default ELSE c.host

(* The refusals that come of the file alone, before anything is written.   *)
AcceptsAnyLogout(s, c) ==
  /\ c.op \in {"addAliases", "setAliases", "removeAlias", "setDefault"} => c.host \in s.hosts
  /\ c.op \in {"login", "addAliases"} => OwnsAliases(s, c.host, s.aliases[c.host] \cup c.aliases)
  /\ c.op = "setAliases" => OwnsAliases(s, c.host, c.aliases)
  /\ c.op = "removeAlias" => c.aliases \subseteq s.aliases[c.host]

Accepts(s, c) ==
  /\ c.op \in {"addAliases", "setAliases", "removeAlias", "setDefault"} => c.host \in s.hosts
  /\ c.op \in {"login", "addAliases"} => OwnsAliases(s, c.host, s.aliases[c.host] \cup c.aliases)
  /\ c.op = "setAliases" => OwnsAliases(s, c.host, c.aliases)
  /\ c.op = "removeAlias" => c.aliases \subseteq s.aliases[c.host]
  /\ c.op = "logout" => Target(s, c) # NoHost

Refuse(p) ==
  \E c \in Commands :
    /\ Starts(p, c)
    /\ ~Accepts(file[c.file], c)
    /\ Fail(p)
    /\ UNCHANGED <<file, keyring, host, stored, todo, got, holds>>

(* LoadStoredConfig, and where the command goes from there.                *)
Load(p, c, h, next, entries, where) ==
  /\ Starts(p, c)
  /\ Accepts(file[c.file], c)
  /\ host' = [host EXCEPT ![p] = h]
  /\ stored' = [stored EXCEPT ![p] = next]
  /\ todo' = [todo EXCEPT ![p] = entries]
  /\ pc' = [pc EXCEPT ![p] = where]
  /\ UNCHANGED <<file, keyring, got, holds>>

LoadLogin(p) ==
  \E c \in Commands :
    /\ c.op = "login"
    /\ Load(p, c, c.host, file[c.file], <<>>, "set")

(* AddHostAliases, SetHostAliases, RemoveHostAlias: no keyring in between. *)
WithAliases(s, h, aliases) == [s EXCEPT !.aliases = [@ EXCEPT ![h] = aliases]]

AddHostAliases(p) ==
  \E c \in Commands :
    LET s == file[c.file]
    IN /\ c.op = "addAliases"
       /\ Load(p, c, c.host, WithAliases(s, c.host, s.aliases[c.host] \cup c.aliases),
               <<>>, "save")

SetHostAliases(p) ==
  \E c \in Commands :
    /\ c.op = "setAliases"
    /\ Load(p, c, c.host, WithAliases(file[c.file], c.host, c.aliases), <<>>, "save")

RemoveHostAlias(p) ==
  \E c \in Commands :
    LET s == file[c.file]
    IN /\ c.op = "removeAlias"
       /\ Load(p, c, c.host, WithAliases(s, c.host, s.aliases[c.host] \ c.aliases), <<>>, "save")

SetDefaultHost(p) ==
  \E c \in Commands :
    /\ c.op = "setDefault"
    /\ Load(p, c, c.host, [file[c.file] EXCEPT !.default = c.host], <<>>, "save")

LoadLogout(p) ==
  \E c \in Commands :
    LET h == Target(file[c.file], c)
    IN /\ c.op = "logout"
       /\ Load(p, c, h, file[c.file], Pair(CredentialKey(c.file), h), "own")

Matches(s, c) == IF Target(s, c) = NoHost THEN {} ELSE MatchStoredHost(s, Target(s, c))

(* A command that needs a credential: for the host asked for, or the       *)
(* default one.                                                            *)
LoadUse(p) ==
  \E c \in Commands :
    /\ c.op = "use"
    /\ \E h \in Matches(file[c.file], c) :
         Load(p, c, h, file[c.file], Pair(CredentialKey(c.file), h), "own")

UseUnknown(p) ==
  \E c \in Commands :
    /\ c.op = "use"
    /\ Matches(file[c.file], c) = {}
    /\ Load(p, c, NoHost, file[c.file], <<>>, "done")

----------------------------------------------------------------------------
(* keyringGet, one entry at a time; an error reads as no secret.           *)
KeyringGet(p) ==
  /\ pc[p] \in {"own", "old"} /\ todo[p] # <<>>
  /\ \E value \in {keyring[Head(todo[p])]}
                     \cup (IF "get" \in KeyringFails THEN {NoSecret} ELSE {}) :
       got' = [got EXCEPT ![p] = [@ EXCEPT ![Head(todo[p])[3]] = value]]
  /\ todo' = [todo EXCEPT ![p] = Tail(@)]
  /\ UNCHANGED <<file, keyring, pc, cmd, host, stored, holds>>

(* storedSecrets: a file with nothing of its own reads the old entries.    *)
FallBack(p) ==
  /\ pc[p] = "own" /\ todo[p] = <<>> /\ cmd[p].op = "use"
  /\ got[p] = NoSecrets
  /\ todo' = [todo EXCEPT ![p] = Pair(Anyone, host[p])]
  /\ pc' = [pc EXCEPT ![p] = "old"]
  /\ UNCHANGED <<file, keyring, cmd, host, stored, got, holds>>

(* The plaintext fills the gaps, and is refused where the keyring is       *)
(* required.                                                               *)
ResolveAnyway(p) ==
  /\ pc[p] \in {"own", "old"} /\ todo[p] = <<>> /\ cmd[p].op = "use"
  /\ pc[p] = "old" \/ got[p] # NoSecrets
  /\ pc' = [pc EXCEPT ![p] = "done"]
  /\ got' = [got EXCEPT ![p] = Filled(@, stored[p].plain[host[p]])]
  /\ UNCHANGED <<file, keyring, cmd, host, stored, todo, holds>>

Resolve(p) ==
  LET filled == Filled(got[p], stored[p].plain[host[p]])
  IN /\ pc[p] \in {"own", "old"} /\ todo[p] = <<>> /\ cmd[p].op = "use"
     /\ pc[p] = "old" \/ got[p] # NoSecrets
     /\ IF cmd[p].require /\ filled # got[p]
        THEN Fail(p) /\ UNCHANGED got
        ELSE /\ pc' = [pc EXCEPT ![p] = "done"]
             /\ got' = [got EXCEPT ![p] = filled]
     /\ UNCHANGED <<file, keyring, cmd, host, stored, todo, holds>>

(* What a logout deletes: the file's own entries, and the old ones when it *)
(* has nothing of its own.                                                 *)
ForgottenToken(p) == <<<<CredentialKey(cmd[p].file), host[p], "token">>>>

Forgotten(p) ==
  Pair(CredentialKey(cmd[p].file), host[p])
    \o (IF got[p] = NoSecrets THEN Pair(Anyone, host[p]) ELSE <<>>)

Logout(p) ==
  /\ pc[p] = "own" /\ todo[p] = <<>> /\ cmd[p].op = "logout"
  /\ \E next \in Nexts(stored[p], host[p]) :
       stored' = [stored EXCEPT ![p] = LoggedOut(@, host[p], next)]
  /\ todo' = [todo EXCEPT ![p] = Forgotten(p)]
  /\ pc' = [pc EXCEPT ![p] = "save"]
  /\ holds' = [holds EXCEPT ![cmd[p].file] = [@ EXCEPT ![host[p]] = Unsure]]
  /\ UNCHANGED <<file, keyring, cmd, host, got>>

(* SaveLogin, once the secret is stored somewhere: the entry of the other  *)
(* kind is deleted next.                                                   *)
LogInBeside(p, secrets) ==
  /\ stored' = [stored EXCEPT ![p] = LoggedIn(@, cmd[p], secrets)]
  /\ pc' = [pc EXCEPT ![p] = "save"]
  /\ holds' = [holds EXCEPT ![cmd[p].file] = [@ EXCEPT ![host[p]] = Unsure]]
  /\ UNCHANGED <<file, cmd, host, todo, got>>

LogIn(p, secrets) ==
  /\ stored' = [stored EXCEPT ![p] = LoggedIn(@, cmd[p], secrets)]
  /\ todo' = [todo EXCEPT ![p] =
                <<<<CredentialKey(cmd[p].file), host[p], Other(cmd[p].kind)>>>>]
  /\ pc' = [pc EXCEPT ![p] = "save"]
  /\ holds' = [holds EXCEPT ![cmd[p].file] = [@ EXCEPT ![host[p]] = Unsure]]
  /\ UNCHANGED <<file, cmd, host, got>>

KeyringSet(p) ==
  /\ pc[p] = "set"
  /\ keyring' = [keyring EXCEPT ![<<CredentialKey(cmd[p].file), host[p], cmd[p].kind>>] = p]
  /\ LogIn(p, NoSecrets)

KeyringSetFails(p) ==
  /\ pc[p] = "set" /\ "set" \in KeyringFails
  /\ UNCHANGED keyring
  /\ IF PlaintextAllowed(cmd[p])
     THEN LogIn(p, [NoSecrets EXCEPT ![cmd[p].kind] = p])
     ELSE Fail(p) /\ UNCHANGED <<file, cmd, host, stored, todo, got, holds>>

(* keyringDelete, whose error every caller ignores.                        *)
KeyringDelete(p) ==
  /\ pc[p] = "save" /\ todo[p] # <<>>
  /\ \/ keyring' = [keyring EXCEPT ![Head(todo[p])] = NoSecret]
     \/ "delete" \in KeyringFails /\ UNCHANGED keyring
  /\ todo' = [todo EXCEPT ![p] = Tail(@)]
  /\ UNCHANGED <<file, pc, cmd, host, stored, got, holds>>

(* writeFileAtomically: write beside the file, then rename over it.        *)
WriteBeside(p) ==
  /\ pc[p] = "save" /\ todo[p] = <<>>
  /\ \/ pc' = [pc EXCEPT ![p] = "rename"]
     \/ SaveFails /\ Fail(p)
  /\ UNCHANGED <<file, keyring, cmd, host, stored, todo, got, holds>>

HeldAfter(p) ==
  IF cmd[p].op = "login" THEN p
  ELSE IF cmd[p].op = "logout" THEN Nobody ELSE holds[cmd[p].file][host[p]]

Rename(p) ==
  /\ pc[p] = "rename"
  /\ file' = [file EXCEPT ![cmd[p].file] = stored[p]]
  /\ holds' = [holds EXCEPT ![cmd[p].file] = [@ EXCEPT ![host[p]] = HeldAfter(p)]]
  /\ pc' = [pc EXCEPT ![p] = "done"]
  /\ UNCHANGED <<keyring, cmd, host, stored, todo, got>>

RenameFails(p) ==
  /\ pc[p] = "rename" /\ SaveFails
  /\ Fail(p)
  /\ UNCHANGED <<file, keyring, cmd, host, stored, todo, got, holds>>

Kill(p) ==
  /\ Crashes /\ Active(p)
  /\ pc' = [pc EXCEPT ![p] = "killed"]
  /\ UNCHANGED <<file, keyring, cmd, host, stored, todo, got, holds>>

Step(p) ==
  \/ LoadLogin(p) \/ AddHostAliases(p) \/ SetHostAliases(p) \/ RemoveHostAlias(p)
  \/ SetDefaultHost(p) \/ LoadLogout(p) \/ LoadUse(p) \/ UseUnknown(p) \/ Refuse(p)
  \/ KeyringGet(p) \/ FallBack(p) \/ Resolve(p) \/ Logout(p)
  \/ KeyringSet(p) \/ KeyringSetFails(p) \/ KeyringDelete(p)
  \/ WriteBeside(p) \/ Rename(p) \/ RenameFails(p) \/ Kill(p)

Next == \E p \in Procs : Step(p)

Spec == Init /\ [][Next]_vars

----------------------------------------------------------------------------
(* Properties.                                                             *)

(* Every variable has its type (StoredConfig, the keyring and the steps of *)
(* SaveLogin, Logout and storedSecrets).                                   *)
TypeOK ==
  /\ file \in [Files -> StoredConfig]
  /\ keyring \in [Entries -> Secrets]
  /\ pc \in [Procs -> Ended \cup {"idle", "set", "own", "old", "save", "rename"}]
  /\ cmd \in [Procs -> Command]
  /\ host \in [Procs -> Hosts \cup {NoHost}]
  /\ stored \in [Procs -> StoredConfig]
  /\ todo \in [Procs -> Seq(Entries)]
  /\ got \in [Procs -> [Kinds -> Secrets]]
  /\ holds \in [Files -> [Hosts -> Secrets \cup {Nobody, Unsure}]]

(* A configuration makes sense: its default is one of its hosts whenever   *)
(* it has any, no alias names two of them, and nothing is kept for a host  *)
(* that is not stored.                                                     *)
DefaultIsStored(s) == s.default \in s.hosts \/ (s.default = NoHost /\ s.hosts = {})
AliasOwnedOnce(s) ==
  \A g, h \in s.hosts : g # h => s.aliases[g] \cap s.aliases[h] = {}
NothingLeftBehind(s) ==
  \A h \in Hosts \ s.hosts : s.aliases[h] = {} /\ s.plain[h] = NoSecrets

(* However logins, logouts and alias changes of one file overlap, fail and *)
(* are killed, the file that is read next makes sense.  The last rename    *)
(* wins, and each checked the whole of what it writes (SaveLogin, Logout,  *)
(* ensureAliasOwnership, writeFileAtomically).                             *)
FilesAreSound ==
  \A f \in Files :
    /\ DefaultIsStored(file[f])
    /\ AliasOwnedOnce(file[f])
    /\ NothingLeftBehind(file[f])

(* What a file and the keyring, as they are now, would have bb act on for  *)
(* a stored host.                                                          *)
Answers(f, h) ==
  LET own == [kind \in Kinds |-> keyring[<<f, h, kind>>]]
      old == [kind \in Kinds |-> keyring[<<Anyone, h, kind>>]]
  IN IF h \notin file[f].hosts THEN NoSecret
     ELSE ActsOn(Filled(IF own = NoSecrets THEN old ELSE own, file[f].plain[h]))

(* The login a file last completed for a host is the one it acts on,       *)
(* whatever kind of secret it replaced, whatever other files do in the     *)
(* keyring, and whatever was refused, failed or was killed before it wrote *)
(* (SaveLogin, credentialsForStoredHost, storedSecrets).                   *)
LastLoginAnswers ==
  \A f \in Files, h \in Hosts :
    holds[f][h] \in Procs => Answers(f, h) = holds[f][h]

(* After a completed logout the file does not name the host, and neither   *)
(* it nor the keyring keeps a secret of that file's for it (Logout).       *)
LogoutForgets ==
  \A f \in Files, h \in Hosts :
    holds[f][h] = Nobody =>
      /\ h \notin file[f].hosts /\ file[f].plain[h] = NoSecrets
      /\ \A kind \in Kinds : keyring[<<f, h, kind>>] = NoSecret

(* The secrets of a finished command's file that its copy held in plain    *)
(* text, and those it acted on.                                            *)
InPlaintext(s) == {s.plain[h][kind] : h \in Hosts, kind \in Kinds} \ {NoSecret}
ActedOn(p) == IF pc[p] = "done" /\ cmd[p].op = "use" THEN {ActsOn(got[p])} \ {NoSecret} ELSE {}

(* A command acts on what was logged in through its own configuration file *)
(* for the host that matched, or on an entry from before there was one per *)
(* file -- at every interleaving of its reads with logins and logouts      *)
(* (credentialKey, storedSecrets).                                         *)
ActsOnItsOwn ==
  \A p \in Procs : \A secret \in ActedOn(p) \ {Old} :
    cmd[secret].file = cmd[p].file /\ cmd[secret].host = host[p]

(* A secret stored for a host over https is never released to the same     *)
(* host asked for over http, unless somebody made that endpoint an alias   *)
(* (matchStoredHost).                                                      *)
NeverInTheClear ==
  \A p \in Procs : \A secret \in ActedOn(p) \cap Procs :
    LET asked == Target(stored[p], cmd[p])
    IN PlainOf[cmd[secret].host] = asked =>
         Endpoint[asked] \in stored[p].aliases[cmd[secret].host]

(* A secret reaches the file only from a login that allowed it and did not *)
(* require the keyring, and no command that requires the keyring acts on a *)
(* secret its file held in plain text (plaintextRefusal,                   *)
(* refuseStoredPlaintext).                                                 *)
KeyringRequired ==
  /\ \A f \in Files : \A secret \in InPlaintext(file[f]) :
       PlaintextAllowed(cmd[secret])
  /\ \A p \in Procs :
       cmd[p].require => ActedOn(p) \cap InPlaintext(stored[p]) = {}

(* What a login or an alias added is about to write still has every host   *)
(* and alias the file has ("Discovery adds to the aliases already stored;  *)
(* it never removes one", SaveLogin, AddHostAliases).                      *)
AddingKeeps ==
  \A p \in Procs :
    pc[p] = "rename" /\ cmd[p].op \in {"login", "addAliases"} =>
      /\ file[cmd[p].file].hosts \subseteq stored[p].hosts
      /\ \A h \in Hosts : file[cmd[p].file].aliases[h] \subseteq stored[p].aliases[h]
=============================================================================
