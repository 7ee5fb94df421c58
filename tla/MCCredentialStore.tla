------------------------- MODULE MCCredentialStore -------------------------
(***************************************************************************)
(* Small instances of CredentialStore: three or four commands, on two       *)
(* configuration files, against one Bitbucket host and its plain-http self.*)
(***************************************************************************)
EXTENDS CredentialStore, TLC

CONSTANTS p1, p2, p3, p4, f1, f2

MCProcs == {p1, p2, p3}
MCFourProcs == {p1, p2, p3, p4}
MCSymmetry == Permutations(Procs)

Https == "https://bb"
Http == "http://bb"
Ssh == "git.bb:22"
MCHosts == {Https, Http}
MCAliases == {"bb:443", "bb:80", Ssh}
MCEndpoint == [h \in MCHosts |-> IF h = Https THEN "bb:443" ELSE "bb:80"]
MCPlainOf == [h \in MCHosts |-> IF h = Https THEN Http ELSE NoHost]

Run(op, f, h) ==
  [op |-> op, file |-> f, host |-> h, kind |-> "token", aliases |-> {},
   allow |-> FALSE, require |-> FALSE, default |-> FALSE]
Login(f, h, kind) == [Run("login", f, h) EXCEPT !.kind = kind]
Aliased(c, aliases) == [c EXCEPT !.aliases = aliases]
Allowing(c) == [c EXCEPT !.allow = TRUE]
Requiring(c) == [c EXCEPT !.require = TRUE]

NoFaults == {}
AnyFault == {"set", "get", "delete"}
SetFails == {"set"}
NoneBefore == {}
FirstBefore == {<<f1, Https>>}

(* Logins of both kinds, aliases and logouts of one file, and another file *)
(* in the same keyring.                                                    *)
AloneCommands ==
  {Login(f1, Https, "token"), Aliased(Login(f1, Https, "password"), {Ssh}),
   [Login(f1, Http, "token") EXCEPT !.default = TRUE],
   Login(f2, Https, "password"),
   Aliased(Run("addAliases", f1, Https), {"bb:80"}),
   Run("logout", f1, NoHost), Run("logout", f2, Https)}

(* Everything at once, on a file of each kind.                             *)
SharedCommands ==
  {Allowing(Login(f1, Https, "token")), Requiring(Allowing(Login(f1, Http, "password"))),
   Allowing(Login(f2, Http, "password")),
   Aliased(Run("addAliases", f1, Http), {Ssh}),
   Aliased(Run("setAliases", f1, Https), {"bb:80", Ssh}),
   Aliased(Run("removeAlias", f1, Https), {Ssh}),
   Run("setDefault", f1, Http), Run("logout", f1, NoHost),
   Requiring(Run("use", f1, Https)), Run("use", f1, Http), Run("use", f2, NoHost)}

ReloginCommands == {Allowing(Login(f1, Https, "token"))}
=============================================================================
