------------------------------ MODULE GhykConfig ------------------------------
(***************************************************************************)
(* The configuration of ghyk (cmd/ghyk/config.go): makeConfigNode layers   *)
(* the defaults, the TOML file named by --config and the command-line     *)
(* flags; makeFullNode registers the services; dumpConfig prints the       *)
(* configuration as TOML.  A configuration is abstracted to one value per *)
(* section: Hyk (hyk.Config without its genesis), Hyk.Genesis, Node,      *)
(* Hykstats.URL and the deprecated Shh section.  A file is a value or      *)
(* "absent" per section, plus whether it holds a key no section defines. *)
(* The flag handlers of cmd/utils (SetNodeConfig, SetHykConfig) are not in *)
(* the sources; they are modelled as overriding the sections their flags  *)
(* set.                                                                    *)
(***************************************************************************)
EXTENDS Naturals

Sections == {"hyk", "genesis", "node", "stats", "shh"}

(* The values a file or a flag may give each section; "" for the stats URL *)
(* is a value, "absent" / "unset" is no value.  "hz" and "nz" are the      *)
(* defaults with a zero in an omitempty field whose default is not zero    *)
(* (hyk.Config's TxLookupLimit or LightPeers, node.Config's HTTPPort or    *)
(* HTTPVirtualHosts), as a file or a flag such as --txlookuplimit 0 sets.  *)
ZeroVals == {"hz", "nz"}
FileVals == [hyk : {"absent", "h1", "hz"}, genesis : {"absent", "g1"},
             node : {"absent", "n1", "nz"}, stats : {"absent", "", "u1"}, shh : {"absent", "s1"}]
FlagVals == [hyk : {"unset", "h2", "hz"}, genesis : {"unset", "g2"}, node : {"unset", "n2", "nz"},
             stats : {"unset", "", "u2"}, graphql : BOOLEAN]

(* hyk.DefaultConfig (its Genesis nil) and defaultNodeConfig().           *)
Default == [hyk |-> "h0", genesis |-> "nil", node |-> "n0", stats |-> "", shh |-> "zero"]

(* One invocation: whether --config is given, the file, whether it has an *)
(* unknown key, the flags, and dumpconfig's output path argument and       *)
(* whether opening it fails.                                               *)
Inputs == [config : BOOLEAN, file : FileVals, unknown : BOOLEAN, flags : FlagVals,
           dumpArg : BOOLEAN, openFails : BOOLEAN]

(* A returned error, and utils.Fatalf (the process exits).                 *)
Error == [error |-> TRUE]

-----------------------------------------------------------------------------
(* loadConfig: the TOML decoder overwrites the sections the file has and   *)
(* fails on a key no section defines (tomlSettings.MissingField).          *)
LoadConfig(file, unknown, cfg) ==
  IF unknown THEN Error
  ELSE [s \in Sections |-> IF file[s] = "absent" THEN cfg[s] ELSE file[s]]

Override(v, f) == IF f = "unset" THEN v ELSE f

(* The defaults, then the file --config names (its loadConfig error is    *)
(* utils.Fatalf).                                                          *)
LoadFile(in) == IF in.config THEN LoadConfig(in.file, in.unknown, Default) ELSE Default

(* SetNodeConfig, node.New, SetHykConfig and the Hykstats URL flag if set: *)
(* each set flag overrides its section.                                    *)
ApplyFlags(cfg, fl) ==
  [cfg EXCEPT !.node = Override(@, fl.node), !.hyk = Override(@, fl.hyk),
              !.genesis = Override(@, fl.genesis), !.stats = Override(@, fl.stats)]

(* Mutant of MakeConfigNode: the file is loaded after the flags are set.  *)
MakeConfigNodeFileLast(in) ==
  LET set == ApplyFlags(Default, in.flags)
  IN IF in.config THEN LoadConfig(in.file, in.unknown, set) ELSE set

(* makeConfigNode: defaults, then the file (utils.Fatalf on an error), then *)
(* the flags.  (node.New's own failure, also fatal, depends on the data   *)
(* directory and is not modelled.)                                         *)
MakeConfigNode(in) ==
  IF LoadFile(in) = Error THEN Error ELSE ApplyFlags(LoadFile(in), in.flags)

(* makeFullNode: the configuration and the services registered on the     *)
(* stack: the hyk service, GraphQL if its flag is set, hykstats if the URL *)
(* is not empty.                                                           *)
MakeFullNode(in) ==
  LET cfg == MakeConfigNode(in)
  IN IF cfg = Error THEN Error
     ELSE [cfg |-> cfg,
           services |-> {"hyk"} \cup (IF in.flags.graphql THEN {"graphql"} ELSE {})
                                \cup (IF cfg.stats # "" THEN {"hykstats"} ELSE {})]

(* tomlSettings.Marshal of a Hyk or Node section: an omitempty field that *)
(* is zero is left out, and decoding the section over the defaults gives   *)
(* that field its default back.                                            *)
OmitZero(s, v) == IF v \in ZeroVals THEN Default[s] ELSE v

(* Mutant of DumpConfig: the Hykstats section is not marshalled.           *)
DumpConfigNoStats(in) ==
  LET cfg == MakeConfigNode(in)
  IN IF cfg = Error \/ (in.dumpArg /\ in.openFails) THEN Error
     ELSE [comment |-> cfg.genesis # "nil",
           file |-> [s \in Sections |->
                       CASE s \in {"genesis", "stats"} -> "absent"
                         [] s = "shh" -> IF cfg.shh = "zero" THEN "absent" ELSE cfg.shh
                         [] OTHER -> OmitZero(s, cfg[s])]]

(* dumpConfig: the configuration with its genesis removed (and a comment  *)
(* saying so), marshalled to TOML, whose omitempty fields (Hykstats.URL,   *)
(* the Shh fields, the zeroable fields of Hyk and Node) are left out when  *)
(* empty, written to the file argument (an error if it cannot be opened)   *)
(* or to stdout.                                                           *)
DumpConfig(in) ==
  LET cfg == MakeConfigNode(in)
  IN IF cfg = Error \/ (in.dumpArg /\ in.openFails) THEN Error
     ELSE [comment |-> cfg.genesis # "nil",
           file |-> [s \in Sections |->
                       CASE s = "genesis" -> "absent"
                         [] s = "stats" -> IF cfg.stats = "" THEN "absent" ELSE cfg.stats
                         [] s = "shh" -> IF cfg.shh = "zero" THEN "absent" ELSE cfg.shh
                         [] OTHER -> OmitZero(s, cfg[s])]]

-----------------------------------------------------------------------------
VARIABLE in

Init == in \in Inputs
Next == UNCHANGED in
Spec == Init /\ [][Next]_in

(* A flag overrides the file, and the file the defaults: every section of *)
(* the configuration makeConfigNode returns holds the flag's value if the *)
(* flag is set, else the file's if --config names a file that has it, else *)
(* the default.                                                            *)
FlagsOverFile ==
  LET cfg == MakeConfigNode(in)
      fl == [s \in Sections |-> IF s = "shh" THEN "unset" ELSE in.flags[s]]
  IN cfg # Error =>
       \A s \in Sections :
         cfg[s] = IF fl[s] # "unset" THEN fl[s]
                  ELSE IF in.config /\ in.file[s] # "absent" THEN in.file[s]
                  ELSE Default[s]

(* ghyk started with the file dumpconfig wrote, and the same flags, builds *)
(* the same node (configuration and services) as with the original file    *)
(* stripped of its genesis, which dumpconfig drops with a comment, and of  *)
(* the zeros it gave omitempty fields with a non-zero default, which the  *)
(* dump leaves out and the reload turns back into the defaults; a zero    *)
(* set by a flag survives, since the flag is applied again.                *)
DumpRoundTrip ==
  LET d == DumpConfig(in)
      again == [in EXCEPT !.config = TRUE, !.file = d.file, !.unknown = FALSE]
      kept == [in EXCEPT !.file = [s \in Sections |->
                 IF s = "genesis" \/ in.file[s] \in ZeroVals THEN "absent" ELSE in.file[s]]]
  IN d # Error => MakeFullNode(again) = MakeFullNode(kept)

=============================================================================
