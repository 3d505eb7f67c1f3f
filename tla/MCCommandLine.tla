--------------------------- MODULE MCCommandLine ---------------------------
(***************************************************************************)
(* Runs of the command line: some that are about finding an OpenSSL, some  *)
(* about reading targets and inventories, some about the batch.            *)
(***************************************************************************)
EXTENDS CommandLine

(* Machines *)

Newest  == Binary(TRUE, <<3, 5, 1>>, TRUE, TRUE, {"X25519MLKEM768", "X25519"})
Minimal == Binary(TRUE, <<3, 5, 0>>, TRUE, FALSE, {"X25519"})
Distro  == Binary(TRUE, <<3, 0, 13>>, FALSE, TRUE, {"X25519", "secp256r1"})
Later   == Binary(TRUE, <<3, 2, 1>>, FALSE, TRUE, {"X25519"})
Next4   == Binary(TRUE, <<4, 0, 0>>, TRUE, TRUE, {})
Libre   == Binary(TRUE, <<>>, FALSE, FALSE, {"X25519"})
Locked  == Binary(FALSE, <<3, 5, 0>>, TRUE, TRUE, {"X25519"})

Path == "/usr/bin/openssl"
Mine == "/home/openssl"
M(env, which, files, slow) == [env |-> env, which |-> which, files |-> files, slow |-> slow]

Plain == M(None, Path, Path :> Newest, {})
Machines ==
  { M(Mine, Path, Mine :> Newest @@ Path :> Distro, {"version", "list", "help"}),
    M(Mine, Path, Mine :> Minimal @@ Path :> Newest, {"version", "list", "MLKEM768"}),
    M(None, Path, PREFIXES[1] :> Distro @@ PREFIXES[2] :> Later @@ PREFIXES[3] :> Later
                  @@ PREFIXES[4] :> Distro @@ Path :> Libre, {}),
    M(None, Path, PREFIXES[1] :> Later @@ PREFIXES[3] :> Distro @@ Path :> Minimal,
      {"version", "MLKEM512"}),
    M(Mine, None, PREFIXES[2] :> Locked @@ PREFIXES[4] :> Next4, {"list"}),
    M(None, Path, Path :> Libre, {}),
    M(None, None, PREFIXES[1] :> Locked, {}) }

(* Command lines *)

Word(w) == <<w>>
HostPort(h, p) == <<h, ":", p>>
V6 == <<"[", ":", ":", "1", "]", ":", "8443">>
NoFile == [kind |-> "none"]
Lines(l) == [kind |-> "lines", lines |-> l]

Base ==
  [ targets |-> <<Word("a")>>, file |-> NoFile, inventory |-> NoFile, openssl |-> None,
    allow_old |-> FALSE, concurrency |-> 2, repeat |-> 0, json |-> "none",
    min_grade |-> None, min_score |-> <<>> ]

Discovering ==
  { [argv |-> [Base EXCEPT !.openssl = o, !.allow_old = old, !.min_grade = "C"], machine |-> m] :
      o \in {None, Path}, old \in BOOLEAN, m \in Machines }

Three == <<Word("a"), HostPort("a", "8443"), V6>>
Reading ==
  { [Base EXCEPT !.targets = <<>>],
    [Base EXCEPT !.targets = <<HostPort("a", "http")>>],
    [Base EXCEPT !.targets = <<Word("a"), <<"[", ":", ":", "1">>>>],
    [Base EXCEPT !.targets = <<<<":", ":", "1">>>>],
    [Base EXCEPT !.file = [kind |-> "unreadable"]],
    [Base EXCEPT !.file = Lines(<<<<"#", "b">>, HostPort("b", "")>>)],
    [Base EXCEPT !.targets = <<>>, !.file = Lines(<<<<"#", "b">>, <<>>>>)],
    [Base EXCEPT !.file = Lines(<<<<"b", ":", "80", "@", "sni", "#", "note">>>>),
                 !.min_grade = "B"] }

Batches ==
  { [Base EXCEPT !.targets = Three, !.concurrency = n, !.min_grade = "B", !.min_score = <<80>>] :
      n \in {-1, 0, 1, 2, 5} }
  \cup { [Base EXCEPT !.json = "unwritable"], [Base EXCEPT !.json = "written"],
         [Base EXCEPT !.min_score = <<50>>] }

(* Inventories *)

Json(shape, defaults, entries) ==
  [kind |-> "json", raw |-> [shape |-> shape, defaults |-> defaults, entries |-> entries]]
NoDefaults == [k \in {} |-> {}]
Ip == <<"10.0.0.1">>
Backend == [backends |-> <<Text(Ip)>>]
Entry_(name, o) == Object([service |-> <<name>>] @@ o)

Shop == Entry_("shop", [data_classification |-> "pci", sensitivity_horizon |-> Absent,
                        frontend |-> Object([ip |-> Ip, type |-> "bigip", tls_mode |-> "offload"])])
Mail == Entry_("mail", [vip |-> Text(V6), sensitivity_horizon |-> "decades"] @@ Backend)
Wiki == Entry_("wiki", [sni |-> <<>>] @@ [backends |->
          <<Object([host |-> <<":", ":", "1">>, port |-> <<"8443">>, repeat |-> 2, sni |-> <<"w">>]),
            Object([ip |-> <<"[", ":", ":", "1", "]">>])>>])
Late == Entry_("late", [data_classification |-> "unknown"] @@ Backend)

Context == [data_classification |-> "internal", sensitivity_horizon |-> "years"]
Repeats == [repeat |-> 0, frontend_repeat |-> 2]

Sound ==
  { Json("services", Context, <<Shop, Mail, Late>>),
    Json("services", Repeats, <<Mail>>),
    Json("services", [repeat |-> -1, port |-> <<"8443">>], <<Late>>),
    Json("list", NoDefaults, <<Wiki, Mail>>),
    Json("single", NoDefaults, <<Shop>>),
    Json("services", NoDefaults, <<>>) }

Unsound ==
  { [kind |-> "unreadable"], [kind |-> "not_json"],
    Json("list", NoDefaults, <<Mail, Text(<<"mail">>)>>),
    Json("list", NoDefaults, <<Mail, Entry_("x", [frontend |-> NotGiven, vip |-> Text(Ip)])>>),
    Json("list", NoDefaults, <<Mail, Object(Backend)>>),
    Json("list", NoDefaults, <<Entry_("x", [backends |-> <<Object([port |-> <<"443">>])>>])>>),
    Json("list", NoDefaults, <<Entry_("x", [backends |-> <<Object([ip |-> Ip, port |-> <<Null>>])>>])>>),
    Json("services", Repeats, <<Mail, Entry_("x", [backends |-> <<Object([ip |-> Ip])>>])>>),
    Json("services", [port |-> <<"x">>], <<Mail>>),
    Json("list", NoDefaults, <<Entry_("x", [data_classification |-> "secret"] @@ Backend)>>),
    Json("list", NoDefaults, <<Entry_("x", [frontend |-> Object([type |-> "vax", ip |-> Ip])])>>),
    Json("list", NoDefaults, <<Entry_("x", [backends |-> <<Other>>])>>) }

Inventories ==
  { [Base EXCEPT !.targets = <<>>, !.inventory = i, !.repeat = r, !.min_grade = "A"] :
      i \in Sound, r \in {-1, 0, 3} }
  \cup { [Base EXCEPT !.inventory = i] : i \in Unsound }

MCRuns ==
  Discovering
    \cup { [argv |-> a, machine |-> Plain] : a \in Reading \cup Batches \cup Inventories }

\* One address under two names: one label, two grades.
MCTwoSnis ==
  { [ argv |-> [Base EXCEPT !.targets = <<<<"a", "@", "x">>, <<"a", "@", "y">>>>,
                            !.min_grade = "B"],
      machine |-> Plain ] }

MCScores == {90, 72, 40}
=============================================================================
