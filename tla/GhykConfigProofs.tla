------------------------- MODULE GhykConfigProofs -------------------------
(***************************************************************************)
(* Proofs about ghyk's configuration layering for every invocation: the   *)
(* flags override the file and the file the defaults, and a dumped        *)
(* configuration, loaded again, builds the same node but for the zeros    *)
(* the dump's omitempty fields lose.                                        *)
(***************************************************************************)
EXTENDS GhykConfig, TLAPS

(* The invocation never changes during a run.                              *)
LEMMA InputsInvariant == Spec => [](in \in Inputs)
<1>1. Init => in \in Inputs
  BY DEF Init
<1>2. in \in Inputs /\ [Next]_in => (in \in Inputs)'
  BY DEF Next
<1>. QED
  BY <1>1, <1>2, PTL DEF Spec

(* The error value is not a configuration: its only field is "error".     *)
LEMMA ErrorNotConfig ==
  ASSUME NEW f, DOMAIN f = Sections
  PROVE  f # Error
  BY DEF Error, Sections

(* The flags, over any configuration: Shh is left as it is, every other    *)
(* section takes its flag's value when the flag is set.                   *)
LEMMA ApplyFlagsSections ==
  ASSUME NEW L, NEW fl, L = [s \in Sections |-> L[s]]
  PROVE  ApplyFlags(L, fl) =
           [s \in Sections |-> IF s = "shh" THEN L[s] ELSE Override(L[s], fl[s])]
  BY Zenon DEF ApplyFlags, Sections

(* The section a loaded configuration has before the flags: the file's if  *)
(* --config names a file that has it, else the default.                    *)
Loaded(i, s) == IF i.config /\ i.file[s] # "absent" THEN i.file[s] ELSE Default[s]

(* The configuration makeConfigNode builds when loading succeeds.          *)
Layered(i) ==
  [s \in Sections |-> IF s = "shh" THEN Loaded(i, s) ELSE Override(Loaded(i, s), i.flags[s])]

(* Loading fails exactly on an unknown key in a file --config names;       *)
(* otherwise every section is Loaded.                                      *)
LEMMA LoadFileSections ==
  ASSUME NEW i, i.config \in BOOLEAN, i.unknown \in BOOLEAN
  PROVE  /\ LoadFile(i) = Error <=> (i.config /\ i.unknown)
         /\ ~(i.config /\ i.unknown) => LoadFile(i) = [s \in Sections |-> Loaded(i, s)]
<1>1. CASE i.config /\ i.unknown
  BY <1>1 DEF LoadFile, LoadConfig
<1>2. CASE ~(i.config /\ i.unknown)
  <2>1. LoadFile(i) = [s \in Sections |-> Loaded(i, s)]
    BY <1>2 DEF LoadFile, LoadConfig, Loaded, Default, Sections
  <2>. QED
    BY <1>2, <2>1, ErrorNotConfig
<1>. QED
  BY <1>1, <1>2

(* makeConfigNode fails exactly when loading does, and otherwise layers  *)
(* the flags over the loaded sections.                                     *)
LEMMA MakeConfigNodeLayered ==
  ASSUME NEW i, i.config \in BOOLEAN, i.unknown \in BOOLEAN
  PROVE  /\ MakeConfigNode(i) = Error <=> (i.config /\ i.unknown)
         /\ ~(i.config /\ i.unknown) => MakeConfigNode(i) = Layered(i)
<1>1. CASE i.config /\ i.unknown
  <2>1. LoadFile(i) = Error
    BY <1>1 DEF LoadFile, LoadConfig
  <2>. QED
    BY <1>1, <2>1 DEF MakeConfigNode
<1>2. CASE ~(i.config /\ i.unknown)
  <2>1. LoadFile(i) = [s \in Sections |-> Loaded(i, s)]
    BY <1>2, LoadFileSections
  <2>2. ApplyFlags(LoadFile(i), i.flags) = Layered(i)
    BY <2>1, ApplyFlagsSections DEF Layered
  <2>3. MakeConfigNode(i) = Layered(i)
    BY <1>2, <2>2, LoadFileSections DEF MakeConfigNode
  <2>. QED
    BY <1>2, <2>3, ErrorNotConfig DEF Layered
<1>. QED
  BY <1>1, <1>2

(* For every invocation whose configuration loads, each section of the    *)
(* configuration makeConfigNode returns is the flag's value if set, else  *)
(* the value of the file --config names if it has the section, else the  *)
(* default.                                                                *)
THEOREM FlagsOverFileHolds == Spec => []FlagsOverFile
<1>1. in \in Inputs => FlagsOverFile
  <2> SUFFICES ASSUME in \in Inputs, MakeConfigNode(in) # Error,
                      NEW s \in Sections
               PROVE  LET fl == [t \in Sections |-> IF t = "shh" THEN "unset" ELSE in.flags[t]]
                      IN  MakeConfigNode(in)[s] =
                            IF fl[s] # "unset" THEN fl[s]
                            ELSE IF in.config /\ in.file[s] # "absent" THEN in.file[s]
                            ELSE Default[s]
    BY DEF FlagsOverFile
  <2>1. ~(in.config /\ in.unknown) /\ MakeConfigNode(in) = Layered(in)
    BY MakeConfigNodeLayered DEF Inputs
  <2>. QED
    BY <2>1 DEF Layered, Loaded, Override
<1>. QED
  BY <1>1, InputsInvariant, PTL

(* The two invocations DumpRoundTrip compares: ghyk started on the dumped *)
(* file, and on the original file without its genesis section and without *)
(* the sections that only zero an omitempty field.                         *)
Again(i) == [i EXCEPT !.config = TRUE, !.file = DumpConfig(i).file, !.unknown = FALSE]
Kept(i) == [i EXCEPT !.file = [s \in Sections |->
              IF s = "genesis" \/ i.file[s] \in ZeroVals THEN "absent" ELSE i.file[s]]]

(* dumpConfig's file, section by section: the genesis dropped, the        *)
(* omitempty Hykstats URL and Shh fields left out when empty, the Hyk and *)
(* Node sections without their zeroed omitempty fields.                    *)
LEMMA DumpedFile ==
  ASSUME NEW i, DumpConfig(i) # Error
  PROVE  LET c == MakeConfigNode(i)
             f == DumpConfig(i).file
         IN  /\ c # Error
             /\ f["genesis"] = "absent"
             /\ f["stats"] = IF c["stats"] = "" THEN "absent" ELSE c["stats"]
             /\ f["shh"] = IF c["shh"] = "zero" THEN "absent" ELSE c["shh"]
             /\ f["hyk"] = OmitZero("hyk", c["hyk"]) /\ f["node"] = OmitZero("node", c["node"])
<1>1. MakeConfigNode(i) # Error /\ ~(i.dumpArg /\ i.openFails)
  BY DEF DumpConfig
<1>. QED
  BY <1>1, Zenon DEF DumpConfig, Sections

(* For every invocation dumpconfig completes, ghyk started on the file it *)
(* wrote with the same flags builds the same node, configuration and      *)
(* services, as ghyk started on the original file without its genesis and *)
(* without the zeros it gave omitempty fields with non-zero defaults: the *)
(* dump loses exactly those, and nothing else.                             *)
THEOREM DumpRoundTripHolds == Spec => []DumpRoundTrip
<1>1. in \in Inputs => DumpRoundTrip
  <2> SUFFICES ASSUME in \in Inputs, DumpConfig(in) # Error
               PROVE  MakeFullNode(Again(in)) = MakeFullNode(Kept(in))
    BY DEF DumpRoundTrip, Again, Kept
  <2> DEFINE c == MakeConfigNode(in)
             f == DumpConfig(in).file
  <2>1. ~(in.config /\ in.unknown) /\ c = Layered(in)
    <3>1. MakeConfigNode(in) # Error
      BY DumpedFile
    <3>. QED
      BY <3>1, MakeConfigNodeLayered DEF Inputs, c
  <2>2. /\ f["genesis"] = "absent"
        /\ f["stats"] = IF c["stats"] = "" THEN "absent" ELSE c["stats"]
        /\ f["shh"] = IF c["shh"] = "zero" THEN "absent" ELSE c["shh"]
        /\ f["hyk"] = OmitZero("hyk", c["hyk"]) /\ f["node"] = OmitZero("node", c["node"])
    BY DumpedFile DEF c, f
  <2>3. /\ Again(in).config = TRUE /\ Again(in).unknown = FALSE
        /\ Again(in).file = f /\ Again(in).flags = in.flags
    BY Zenon DEF Again, Inputs, f
  <2>4. /\ Kept(in).config = in.config /\ Kept(in).unknown = in.unknown
        /\ Kept(in).flags = in.flags
        /\ \A s \in Sections : Kept(in).file[s] =
             IF s = "genesis" \/ in.file[s] \in ZeroVals THEN "absent" ELSE in.file[s]
    BY Zenon DEF Kept, Inputs
  <2>5. MakeConfigNode(Again(in)) = Layered(Again(in))
    <3>1. Again(in).config \in BOOLEAN /\ Again(in).unknown \in BOOLEAN
          /\ ~(Again(in).config /\ Again(in).unknown)
      BY <2>3
    <3>. QED
      BY <3>1, MakeConfigNodeLayered
  <2>6. MakeConfigNode(Kept(in)) = Layered(Kept(in))
    <3>1. Kept(in).config \in BOOLEAN /\ Kept(in).unknown \in BOOLEAN
          /\ ~(Kept(in).config /\ Kept(in).unknown)
      BY <2>1, <2>4 DEF Inputs
    <3>. QED
      BY <3>1, MakeConfigNodeLayered
  <2>7. \A s \in Sections : Layered(Again(in))[s] = Layered(Kept(in))[s]
    <3> SUFFICES ASSUME NEW s \in Sections
                 PROVE  Layered(Again(in))[s] = Layered(Kept(in))[s]
      OBVIOUS
    <3>1. in.file \in FileVals /\ in.flags \in FlagVals
      BY DEF Inputs
    <3>2. Loaded(Kept(in), s) =
            IF s = "genesis" \/ in.file[s] \in ZeroVals THEN Default[s] ELSE Loaded(in, s)
      BY <2>4 DEF Loaded
    <3>3. Loaded(Again(in), s) = IF f[s] # "absent" THEN f[s] ELSE Default[s]
      BY <2>3 DEF Loaded
    <3>4. CASE s = "genesis"
      BY <3>4, <2>2, <2>3, <2>4, <3>2, <3>3 DEF Layered
    <3>5. CASE s = "hyk"
      <4>1. c[s] = Override(Loaded(in, s), in.flags[s])
        BY <2>1, <3>5 DEF Layered
      <4>2. /\ in.file[s] \in {"absent", "h1", "hz"}
            /\ in.flags[s] \in {"unset", "h2", "hz"}
        BY <3>1, <3>5 DEF FileVals, FlagVals
      <4>3. Loaded(in, s) \in {"h0", "h1", "hz"}
        BY <3>5, <4>2 DEF Loaded, Default
      <4>4. c[s] \in {"h0", "h1", "hz", "h2"}
        BY <4>1, <4>2, <4>3 DEF Override
      <4>5. Loaded(Again(in), s) = OmitZero(s, c[s])
        BY <2>2, <3>3, <3>5, <4>4 DEF OmitZero, ZeroVals, Default
      <4>6. CASE in.flags[s] = "unset"
        BY <2>3, <2>4, <3>2, <3>5, <4>1, <4>5, <4>6 DEF Layered, Override, OmitZero,
           ZeroVals, Loaded, Default
      <4>7. CASE in.flags[s] # "unset"
        BY <2>3, <2>4, <3>5, <4>7 DEF Layered, Override
      <4>. QED
        BY <4>6, <4>7
    <3>8. CASE s = "node"
      <4>1. c[s] = Override(Loaded(in, s), in.flags[s])
        BY <2>1, <3>8 DEF Layered
      <4>2. /\ in.file[s] \in {"absent", "n1", "nz"}
            /\ in.flags[s] \in {"unset", "n2", "nz"}
        BY <3>1, <3>8 DEF FileVals, FlagVals
      <4>3. Loaded(in, s) \in {"n0", "n1", "nz"}
        BY <3>8, <4>2 DEF Loaded, Default
      <4>4. c[s] \in {"n0", "n1", "nz", "n2"}
        BY <4>1, <4>2, <4>3 DEF Override
      <4>5. Loaded(Again(in), s) = OmitZero(s, c[s])
        BY <2>2, <3>3, <3>8, <4>4 DEF OmitZero, ZeroVals, Default
      <4>6. CASE in.flags[s] = "unset"
        BY <2>3, <2>4, <3>2, <3>8, <4>1, <4>5, <4>6 DEF Layered, Override, OmitZero,
           ZeroVals, Loaded, Default
      <4>7. CASE in.flags[s] # "unset"
        BY <2>3, <2>4, <3>8, <4>7 DEF Layered, Override
      <4>. QED
        BY <4>6, <4>7
    <3>6. CASE s = "stats"
      <4>1. c[s] = Override(Loaded(in, s), in.flags[s]) /\ in.file[s] \notin ZeroVals
        BY <2>1, <3>1, <3>6 DEF Layered, FileVals, ZeroVals
      <4>2. Loaded(in, s) # "absent" /\ in.flags[s] # "absent"
        BY <3>1, <3>6 DEF Loaded, Default, FileVals, FlagVals
      <4>3. Loaded(Again(in), s) = c[s]
        BY <2>2, <3>3, <3>6, <4>1, <4>2 DEF Override, Default
      <4>. QED
        BY <4>1, <4>3, <3>2, <2>3, <2>4, <3>6 DEF Layered, Override
    <3>7. CASE s = "shh"
      <4>1. c[s] = Loaded(in, s) /\ Loaded(in, s) # "absent" /\ in.file[s] \notin ZeroVals
        BY <2>1, <3>1, <3>7 DEF Layered, Loaded, Default, FileVals, ZeroVals
      <4>2. Loaded(Again(in), s) = c[s]
        BY <2>2, <3>3, <3>7, <4>1 DEF Default
      <4>. QED
        BY <4>1, <4>2, <3>2, <3>7 DEF Layered
    <3>. QED
      BY <3>4, <3>5, <3>6, <3>7, <3>8 DEF Sections
  <2>. QED
    <3>1. Layered(Again(in)) = Layered(Kept(in))
      BY <2>7 DEF Layered
    <3>2. Layered(Again(in)) # Error
      BY ErrorNotConfig DEF Layered
    <3>. QED
      BY <2>3, <2>4, <2>5, <2>6, <3>1, <3>2 DEF MakeFullNode
<1>. QED
  BY <1>1, InputsInvariant, PTL

=============================================================================
