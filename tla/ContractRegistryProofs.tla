----------------------- MODULE ContractRegistryProofs ----------------------
(***************************************************************************)
(* The file of contract names tells the truth, and what is missing from it *)
(* or makes it unreadable has a cause, for any number of commands and      *)
(* names.                                                                  *)
(***************************************************************************)
EXTENDS ContractRegistry, TLAPS

(* What a command has been told of its contract. *)
AddressIsOwn ==
    \A c \in Commands :
        /\ address[c] # None => address[c] \in chain /\ address[c].by = c
        /\ phase[c] \in {"save", "write", "done"} => address[c] = Deployed(c)

(* What is on the chain has been tried. *)
ChainIsTried == \A k \in chain : k.try <= tries[k.by] /\ phase[k.by] # "idle"

(* Every name in m stands for a contract given that name. *)
TrueNames(m) ==
    \A n \in Names : m[n] # None => m[n] \in chain /\ alias[m[n].by] = n

KnownIsTrue == \A c \in Commands : TrueNames(known[c])

FileIsTrue == Readable => TrueNames(file)

(* Commands that run at the same time know of each other. *)
BesideEachOther ==
    \A c, d \in Commands :
        c # d /\ Running(c) /\ Running(d) => d \in beside[c] /\ c \in beside[d]

(* Somebody has saved who ran beside c. *)
Overwritten(c) == \E d \in beside[c] : phase[d] = "done"

Saved(c) == phase[c] = "done" /\ ~Overwritten(c)

(* The name of a command is in the map m, for good: d does not have it. *)
SavedFor(c, d) == known[d][alias[c]] = address[c] /\ alias[d] # alias[c]

(* Whoever runs and has not run beside c has loaded c's contract. *)
SavedIsKnown ==
    \A c, d \in Commands :
        Saved(c) /\ Running(d) /\ d \notin beside[c] => SavedFor(c, d)

SavedStays == Readable => \A c \in Commands : Saved(c) => file[alias[c]] = address[c]

(* The file a command has emptied is not empty when it writes: somebody    *)
(* else has written meanwhile.                                             *)
WrittenBeside ==
    \A c \in Commands : phase[c] = "write" /\ file # Truncated => beside[c] # {}

RegistryInv ==
    /\ RegistryTypeOK
    /\ AddressIsOwn
    /\ ChainIsTried
    /\ KnownIsTrue
    /\ FileIsTrue
    /\ BesideEachOther
    /\ SavedIsKnown
    /\ SavedStays
    /\ WrittenBeside
    /\ DamageIsNoticed

-----------------------------------------------------------------------------
LEMMA RegistryInitInv == RegistryInit => RegistryInv
  BY RegistryAssumption
  DEF RegistryInit, RegistryInv, RegistryTypeOK, AddressIsOwn, ChainIsTried,
      KnownIsTrue, FileIsTrue, TrueNames, BesideEachOther, SavedIsKnown, Saved,
      SavedStays, WrittenBeside, DamageIsNoticed, Contracts, NoContracts, Phases,
      Running

LEMMA StutterInv == RegistryInv /\ UNCHANGED vars => RegistryInv'
<1>. SUFFICES ASSUME RegistryInv, UNCHANGED vars PROVE RegistryInv'
  OBVIOUS
<1>. USE DEF RegistryInv, vars, commandVars
<1>1. RegistryTypeOK' /\ AddressIsOwn' /\ ChainIsTried'
  BY DEF RegistryTypeOK, AddressIsOwn, ChainIsTried, Deployed
<1>2. KnownIsTrue' /\ FileIsTrue' /\ BesideEachOther'
  BY DEF KnownIsTrue, FileIsTrue, TrueNames, BesideEachOther, Readable, Running
<1>3. SavedIsKnown' /\ SavedStays'
  BY DEF SavedIsKnown, SavedFor, SavedStays, Saved, Overwritten, Readable, Running
<1>4. WrittenBeside' /\ DamageIsNoticed'
  BY DEF WrittenBeside, DamageIsNoticed
<1>. QED
  BY <1>1, <1>2, <1>3, <1>4

(* A step after which nobody is newly done or running, and which leaves the *)
(* names, the knowledge, and what commands ran beside, keeps what is saved  *)
(* saved, as far as the file is the same or cannot be read.                 *)
LEMMA SavedAsBefore ==
  ASSUME RegistryInv, UNCHANGED <<alias, known, beside>>,
         \A d \in Commands : Running(d)' => Running(d),
         \A d \in Commands : (phase[d] = "done") = (phase'[d] = "done"),
         \A d \in Commands : phase[d] = "done" => address'[d] = address[d],
         UNCHANGED file \/ ~Readable'
  PROVE  SavedIsKnown' /\ SavedStays'
<1>1. \A d \in Commands : beside[d] \subseteq Commands
  BY DEF RegistryInv, RegistryTypeOK
<1>2. ASSUME NEW c \in Commands, Saved(c)' PROVE Saved(c)
  BY <1>1, <1>2 DEF Saved, Overwritten
<1>3. ASSUME NEW c \in Commands, NEW d \in Commands,
             Saved(c)', Running(d)', d \notin beside[c]
      PROVE  SavedFor(c, d)'
  BY <1>2, <1>3 DEF RegistryInv, SavedIsKnown, SavedFor, Saved
<1>4. SavedIsKnown'
  BY <1>3 DEF SavedIsKnown
<1>5. SavedStays'
  <2>. SUFFICES ASSUME Readable', NEW c \in Commands, Saved(c)'
                PROVE  file'[alias[c]] = address'[c]
    BY DEF SavedStays
  <2>. QED
    BY <1>2 DEF RegistryInv, SavedStays, Saved, Readable
<1>. QED
  BY <1>4, <1>5
-----------------------------------------------------------------------------
(* LoadClient: whoever is done ran before, and is in the file that is read. *)

LEMMA LoadClientInv ==
  ASSUME RegistryInv, NEW c \in Commands, LoadClient(c)
  PROVE  RegistryInv'
<1>0. UNCHANGED <<file, chain, alias, address, tries>> /\ phase[c] = "idle"
  BY DEF LoadClient
<1>t. /\ file \in Contracts \cup {Truncated, Garbled} /\ phase \in [Commands -> Phases]
      /\ known \in [Commands -> Contracts] /\ beside \in [Commands -> SUBSET Commands]
      /\ chain \subseteq Contract
  BY DEF RegistryInv, RegistryTypeOK
<1>1. RegistryTypeOK'
  <2>1. CASE Readable /\ known' = [known EXCEPT ![c] = file]
                      /\ beside' = BegunBeside(c) /\ Become(c, "originate")
    <3>1. file \in Contracts
      BY <2>1 DEF RegistryInv, RegistryTypeOK, Readable
    <3>2. BegunBeside(c) \in [Commands -> SUBSET Commands]
      BY DEF BegunBeside, RegistryInv, RegistryTypeOK
    <3>. QED
      BY <2>1, <3>1, <3>2
      DEF LoadClient, Become, RegistryInv, RegistryTypeOK, Phases
  <2>2. CASE Become(c, "failed") /\ UNCHANGED <<known, beside>>
    BY <2>2 DEF LoadClient, Become, RegistryInv, RegistryTypeOK, Phases
  <2>. QED
    BY <2>1, <2>2 DEF LoadClient
<1>2. CASE Become(c, "failed") /\ UNCHANGED <<known, beside>>
  <2>1. phase' = [phase EXCEPT ![c] = "failed"]
    BY <1>2 DEF Become
  <2>2. AddressIsOwn' /\ ChainIsTried'
    BY <1>0, <1>t, <2>1 DEF RegistryInv, AddressIsOwn, ChainIsTried, Deployed, Contract
  <2>3. KnownIsTrue' /\ FileIsTrue'
    BY <1>0, <1>2 DEF RegistryInv, KnownIsTrue, FileIsTrue, TrueNames, Readable
  <2>4. /\ \A d \in Commands : Running(d)' => Running(d)
        /\ \A d \in Commands : (phase[d] = "done") = (phase'[d] = "done")
    BY <1>0, <1>t, <2>1 DEF Running
  <2>5. BesideEachOther'
    BY <1>2, <2>4 DEF RegistryInv, BesideEachOther
  <2>6. SavedIsKnown' /\ SavedStays'
    BY <1>0, <1>2, <2>4, SavedAsBefore
  <2>7. WrittenBeside' /\ DamageIsNoticed'
    BY <1>0, <1>t, <1>2, <2>1 DEF RegistryInv, WrittenBeside, DamageIsNoticed
  <2>. QED
    BY <1>1, <2>2, <2>3, <2>5, <2>6, <2>7 DEF RegistryInv
<1>3. CASE /\ Readable /\ file[alias[c]] = None
           /\ known' = [known EXCEPT ![c] = file]
           /\ beside' = BegunBeside(c) /\ Become(c, "originate")
  <2>0. phase' = [phase EXCEPT ![c] = "originate"]
    BY <1>3 DEF Become
  <2>1. AddressIsOwn' /\ ChainIsTried'
    BY <1>0, <1>t, <2>0 DEF RegistryInv, AddressIsOwn, ChainIsTried, Deployed, Contract
  <2>2. KnownIsTrue' /\ FileIsTrue'
    BY <1>0, <1>t, <1>3 DEF RegistryInv, KnownIsTrue, FileIsTrue, TrueNames, Readable
  <2>b. /\ beside'[c] = {d \in Commands : Running(d)}
        /\ \A d \in Commands \ {c} :
              beside'[d] = IF Running(d) THEN beside[d] \cup {c} ELSE beside[d]
    BY <1>0, <1>3 DEF BegunBeside, Running
  <2>r. \A d \in Commands \ {c} : Running(d)' = Running(d)
    BY <1>t, <2>0 DEF Running
  <2>3. BesideEachOther'
    BY <2>b, <2>r DEF RegistryInv, BesideEachOther
  <2>4. ASSUME NEW d \in Commands, Saved(d)' PROVE Saved(d) /\ d # c /\ beside'[d] = beside[d]
    <3>1. d # c /\ phase[d] = "done" /\ ~Running(d)
      BY <1>0, <1>t, <2>0, <2>4 DEF Saved, Running
    <3>2. beside'[d] = beside[d] /\ beside[d] \subseteq Commands
      BY <1>t, <2>b, <3>1
    <3>3. \A e \in Commands : phase[e] = "done" => phase'[e] = "done"
      BY <1>0, <1>t, <2>0
    <3>. QED
      BY <2>4, <3>1, <3>2, <3>3 DEF Saved, Overwritten
  <2>5. SavedStays'
    BY <1>0, <2>4 DEF RegistryInv, SavedStays, Readable
  <2>6. ASSUME NEW d \in Commands, NEW e \in Commands,
               Saved(d)', Running(e)', e \notin beside'[d]
        PROVE  SavedFor(d, e)'
    <3>1. Saved(d) /\ d # c /\ e \notin beside[d] /\ phase[d] = "done"
      BY <2>4, <2>6 DEF Saved
    <3>2. CASE e = c
      <4>1. file[alias[d]] = address[d]
        BY <1>3, <3>1 DEF RegistryInv, SavedStays
      <4>2. address[d] # None
        BY <1>t, <3>1, RegistryAssumption
        DEF RegistryInv, RegistryTypeOK, AddressIsOwn, Deployed, Contract
      <4>3. known'[c] = file
        BY <1>t, <1>3
      <4>. QED
        BY <1>0, <1>3, <3>2, <4>1, <4>2, <4>3 DEF SavedFor
    <3>3. CASE e # c
      <4>1. SavedFor(d, e)
        BY <2>6, <2>r, <3>1, <3>3 DEF RegistryInv, SavedIsKnown
      <4>. QED
        BY <1>0, <1>t, <1>3, <3>3, <4>1 DEF SavedFor
    <3>. QED
      BY <3>2, <3>3
  <2>7. SavedIsKnown'
    BY <2>6 DEF SavedIsKnown
  <2>8. WrittenBeside' /\ DamageIsNoticed'
    <3>1. file \notin {Truncated, Garbled}
      BY <1>3 DEF Readable
    <3>2. \A d \in Commands : phase'[d] = "write" => d # c /\ phase[d] = "write"
      BY <1>t, <2>0
    <3>3. \A d \in Commands : phase'[d] = "write" => beside[d] \subseteq beside'[d]
      BY <2>b, <3>2
    <3>4. WrittenBeside'
      BY <1>0, <3>2, <3>3 DEF RegistryInv, WrittenBeside
    <3>. QED
      BY <1>0, <3>1, <3>4 DEF DamageIsNoticed
  <2>. QED
    BY <1>1, <2>1, <2>2, <2>3, <2>5, <2>7, <2>8 DEF RegistryInv
<1>. QED
  BY <1>2, <1>3 DEF LoadClient

(* Originate: the chain grows, and what grows is the command's own.        *)

LEMMA OriginateInv ==
  ASSUME RegistryInv, NEW c \in Commands, Originate(c)
  PROVE  RegistryInv'
<1>. USE DEF RegistryInv, RegistryTypeOK
<1>1. Deployed(c) \in Contract /\ Deployed(c).by = c /\ Deployed(c).try = tries[c]
      /\ Deployed(c) # None
  BY RegistryAssumption DEF Deployed, Contract
<1>2. chain \subseteq chain' /\ chain' \subseteq chain \cup {Deployed(c)}
  BY DEF Originate
<1>3. /\ phase[c] = "originate"
      /\ \A d \in Commands \ {c} : /\ phase'[d] = phase[d] /\ address'[d] = address[d]
                                   /\ tries'[d] = tries[d]
      /\ phase'[c] \in {"originate", "save", "failed"}
      /\ tries[c] <= tries'[c]
      /\ UNCHANGED <<file, alias, known, beside>>
  BY DEF Originate, Become
<1>4. RegistryTypeOK'
  <2>1. tries' \in [Commands -> 0..MaxRetries]
    BY RegistryAssumption DEF Originate, MayRetry
  <2>2. /\ phase' \in [Commands -> Phases]
        /\ address' \in [Commands -> Contract \cup {None}]
    BY <1>1 DEF Originate, Become, Phases
  <2>. QED
    BY <1>1, <1>2, <2>1, <2>2 DEF Originate
<1>5. \A d \in Commands \ {c} : Deployed(d)' = Deployed(d)
  BY <1>3 DEF Deployed
<1>6. AddressIsOwn'
  <2>1. CASE /\ chain' = chain \cup {Deployed(c)}
             /\ address' = [address EXCEPT ![c] = Deployed(c)]
             /\ UNCHANGED tries
    <3>1. Deployed(c)' = Deployed(c) /\ address'[c] = Deployed(c)
      BY <2>1 DEF Deployed
    <3>. QED
      BY <1>1, <1>3, <1>5, <2>1, <3>1 DEF AddressIsOwn
  <2>2. CASE UNCHANGED address /\ phase'[c] \in {"originate", "failed"}
    <3>. HIDE DEF RegistryTypeOK
    <3>. QED
      BY <1>2, <1>3, <1>5, <2>2 DEF AddressIsOwn
  <2>. QED
    BY <2>1, <2>2, <1>3 DEF Originate, Become
<1>7. ChainIsTried'
  <2>. SUFFICES ASSUME NEW k \in chain'
                PROVE  k.try <= tries'[k.by] /\ phase'[k.by] # "idle"
    BY DEF ChainIsTried
  <2>1. tries[c] \in Int /\ tries'[c] \in Int
    BY <1>4
  <2>2. CASE k = Deployed(c)
    BY <1>1, <1>3, <2>1, <2>2
  <2>3. CASE k \in chain
    <3>1. k \in Contract /\ k.by \in Commands /\ k.try \in Int
      BY <2>3 DEF Contract
    <3>2. k.try <= tries[k.by] /\ phase[k.by] # "idle"
      BY <2>3 DEF ChainIsTried
    <3>. QED
      BY <1>3, <2>1, <3>1, <3>2
  <2>. QED
    BY <1>2, <2>2, <2>3
<1>8. KnownIsTrue' /\ FileIsTrue'
  BY <1>2, <1>3 DEF KnownIsTrue, FileIsTrue, TrueNames, Readable
<1>9. /\ \A d \in Commands : Running(d)' => Running(d)
      /\ \A d \in Commands : (phase[d] = "done") = (phase'[d] = "done")
      /\ \A d \in Commands : phase[d] = "done" => address'[d] = address[d]
  BY <1>3 DEF Running
<1>10. BesideEachOther'
  BY <1>3, <1>9 DEF BesideEachOther
<1>11. SavedIsKnown' /\ SavedStays'
  BY <1>3, <1>9, SavedAsBefore
<1>12. WrittenBeside'
  BY <1>3 DEF WrittenBeside
<1>13. DamageIsNoticed'
  <2>1. \A d \in Commands : phase[d] \in {"write", "failed", "killed", "done"} => d # c
    BY <1>3
  <2>. QED
    BY <1>3, <2>1 DEF DamageIsNoticed
<1>. QED
  BY <1>4, <1>6, <1>7, <1>8, <1>10, <1>11, <1>12, <1>13

LEMMA OpenFileInv ==
  ASSUME RegistryInv, NEW c \in Commands, OpenFile(c)
  PROVE  RegistryInv'
<1>. USE DEF OpenFile, Become, RegistryInv, RegistryTypeOK
<1>1. RegistryTypeOK'
  BY DEF Phases
<1>2. AddressIsOwn' /\ ChainIsTried'
  BY DEF AddressIsOwn, ChainIsTried, Deployed, Contract
<1>3. KnownIsTrue' /\ FileIsTrue'
  BY DEF KnownIsTrue, FileIsTrue, TrueNames, Readable
<1>4. /\ UNCHANGED <<alias, known, beside, address>>
      /\ \A d \in Commands : Running(d)' => Running(d)
      /\ \A d \in Commands : (phase[d] = "done") = (phase'[d] = "done")
      /\ UNCHANGED file \/ ~Readable'
  BY DEF Running, Readable
<1>5. BesideEachOther' /\ SavedIsKnown' /\ SavedStays'
  BY <1>4, SavedAsBefore DEF BesideEachOther
<1>6. WrittenBeside'
  BY DEF WrittenBeside
<1>7. DamageIsNoticed'
  <2>1. CASE file' = Truncated /\ phase' = [phase EXCEPT ![c] = "write"]
    <3>1. address[c] # None
      BY RegistryAssumption DEF AddressIsOwn, Deployed, Contract
    <3>. QED
      BY <2>1, <3>1, RegistryAssumption DEF DamageIsNoticed
  <2>2. CASE UNCHANGED file /\ phase' = [phase EXCEPT ![c] = "failed"]
    BY <2>2 DEF DamageIsNoticed
  <2>. QED
    BY <2>1, <2>2
<1>. QED
  BY <1>1, <1>2, <1>3, <1>5, <1>6, <1>7

(* WriteFile: what is written has what was saved before.                   *)

LEMMA WriteFileInv ==
  ASSUME RegistryInv, NEW c \in Commands, WriteFile(c)
  PROVE  RegistryInv'
<1>. USE DEF WriteFile, Become, RegistryInv, RegistryTypeOK
<1>1. /\ address[c] \in chain /\ address[c].by = c /\ address[c] \in Contract
      /\ address[c] # None /\ Running(c)
  <2>1. address[c] = Deployed(c) /\ Deployed(c) \in Contract
    BY DEF AddressIsOwn, Deployed, Contract
  <2>. QED
    BY <2>1, RegistryAssumption DEF AddressIsOwn, Running
<1>2. NewContents(c) \in Contracts /\ TrueNames(NewContents(c))
  BY <1>1 DEF NewContents, Contracts, KnownIsTrue, TrueNames
<1>3. RegistryTypeOK'
  BY <1>2 DEF Phases
<1>4. AddressIsOwn' /\ ChainIsTried'
  BY DEF AddressIsOwn, ChainIsTried, Deployed, Contract
<1>5. KnownIsTrue'
  BY DEF KnownIsTrue, TrueNames
<1>6. FileIsTrue'
  BY <1>2 DEF FileIsTrue, TrueNames, Readable
<1>7. /\ \A d \in Commands : Running(d)' => d # c /\ Running(d)
      /\ \A d \in Commands : d = c \/ phase'[d] = phase[d]
  BY DEF Running
<1>8. BesideEachOther'
  BY <1>7 DEF BesideEachOther
<1>9. ASSUME NEW d \in Commands, Saved(d)', d # c PROVE Saved(d)
  <2>1. \A e \in Commands : phase[e] = "done" => phase'[e] = "done"
    OBVIOUS
  <2>2. phase[d] = "done" /\ beside[d] \subseteq Commands
    BY <1>7, <1>9 DEF Saved
  <2>. QED
    BY <1>9, <2>1, <2>2 DEF Saved, Overwritten
<1>10. SavedIsKnown'
  <2>. SUFFICES ASSUME NEW d \in Commands, NEW e \in Commands,
                       Saved(d)', Running(e)', e \notin beside[d]
                PROVE  SavedFor(d, e)
    BY DEF SavedIsKnown, SavedFor
  <2>1. d # c
    BY <1>1, <1>7 DEF BesideEachOther
  <2>. QED
    BY <1>7, <1>9, <2>1 DEF SavedIsKnown
<1>11. SavedStays'
  <2>. SUFFICES ASSUME NEW d \in Commands, Saved(d)', Readable'
                PROVE  file'[alias[d]] = address[d]
    BY DEF SavedStays
  <2>1. CASE file' = NewContents(c) /\ phase' = [phase EXCEPT ![c] = "done"]
    <3>1. CASE d = c
      BY <2>1, <3>1 DEF NewContents, Contracts
    <3>2. CASE d # c
      <4>1. c \notin beside[d]
        BY <2>1 DEF Saved, Overwritten
      <4>2. SavedFor(d, c)
        BY <1>1, <1>9, <3>2, <4>1 DEF SavedIsKnown
      <4>. QED
        BY <2>1, <4>2 DEF NewContents, Contracts, SavedFor
    <3>. QED
      BY <3>1, <3>2
  <2>2. CASE UNCHANGED file /\ phase' = [phase EXCEPT ![c] = "failed"]
    <3>1. d # c
      BY <2>2 DEF Saved
    <3>. QED
      BY <1>9, <2>2, <3>1 DEF SavedStays, Readable
  <2>3. file' # Garbled
    BY DEF Readable
  <2>. QED
    BY <2>1, <2>2, <2>3
<1>12. WrittenBeside'
  <2>. SUFFICES ASSUME NEW d \in Commands, phase'[d] = "write", file' # Truncated
                PROVE  beside[d] # {}
    BY DEF WrittenBeside
  <2>1. d # c /\ phase[d] = "write"
    OBVIOUS
  <2>2. Running(d)
    BY <2>1 DEF Running
  <2>. QED
    BY <1>1, <2>1, <2>2 DEF BesideEachOther
<1>13. DamageIsNoticed'
  <2>1. CASE file' = NewContents(c)
    BY <1>2, <2>1, RegistryAssumption DEF DamageIsNoticed
  <2>2. CASE /\ file # Truncated /\ file' = Garbled
             /\ phase' = [phase EXCEPT ![c] = "done"]
    <3>1. beside'[c] # {} /\ phase'[c] = "done"
      BY <2>2 DEF WrittenBeside
    <3>. QED
      BY <2>2, <3>1, RegistryAssumption DEF DamageIsNoticed
  <2>3. CASE UNCHANGED file /\ phase' = [phase EXCEPT ![c] = "failed"]
    BY <2>3 DEF DamageIsNoticed
  <2>. QED
    BY <2>1, <2>2, <2>3
<1>. QED
  BY <1>3, <1>4, <1>5, <1>6, <1>8, <1>10, <1>11, <1>12, <1>13

LEMMA KillInv ==
  ASSUME RegistryInv, NEW c \in Commands, Kill(c)
  PROVE  RegistryInv'
<1>. USE DEF Kill, Become, RegistryInv, RegistryTypeOK
<1>1. RegistryTypeOK'
  BY DEF Phases
<1>2. AddressIsOwn' /\ ChainIsTried'
  BY DEF AddressIsOwn, ChainIsTried, Deployed, Contract
<1>3. KnownIsTrue' /\ FileIsTrue'
  BY DEF KnownIsTrue, FileIsTrue, TrueNames, Readable
<1>4. /\ UNCHANGED <<file, alias, known, beside, address>>
      /\ \A d \in Commands : Running(d)' => Running(d)
      /\ \A d \in Commands : (phase[d] = "done") = (phase'[d] = "done")
  BY DEF Running
<1>5. BesideEachOther' /\ SavedIsKnown' /\ SavedStays'
  BY <1>4, SavedAsBefore DEF BesideEachOther
<1>6. WrittenBeside' /\ DamageIsNoticed'
  BY DEF WrittenBeside, DamageIsNoticed, Running
<1>. QED
  BY <1>1, <1>2, <1>3, <1>5, <1>6

-----------------------------------------------------------------------------
LEMMA RegistryInvariant == RegistrySpec => []RegistryInv
<1>1. RegistryInv /\ [RegistryNext]_vars => RegistryInv'
  <2>1. ASSUME RegistryInv, NEW c \in Commands,
               \/ LoadClient(c) \/ Originate(c) \/ OpenFile(c)
               \/ WriteFile(c) \/ Kill(c)
        PROVE  RegistryInv'
    BY <2>1, LoadClientInv, OriginateInv, OpenFileInv, WriteFileInv, KillInv
  <2>. QED
    BY <2>1, StutterInv DEF RegistryNext
<1>. QED
  BY <1>1, RegistryInitInv, PTL DEF RegistrySpec

(* The file, the chain and the commands keep their types: no command tries *)
(* more often than maxRetries allows.                                      *)
THEOREM RegistryTypeCorrect == RegistrySpec => []RegistryTypeOK
<1>1. RegistryInv => RegistryTypeOK
  BY DEF RegistryInv
<1>. QED
  BY <1>1, RegistryInvariant, PTL

(* A name in the file stands for a contract on the chain that was given    *)
(* this name, for any number of commands that race, fail and are killed.   *)
THEOREM NamesAlwaysTrue == RegistrySpec => []NamesAreTrue
<1>1. RegistryInv => NamesAreTrue
  BY DEF RegistryInv, FileIsTrue, TrueNames, NamesAreTrue
<1>. QED
  BY <1>1, RegistryInvariant, PTL

(* A contract on the chain that is missing from the list has been lost to  *)
(* an error or a kill of its own command, to a retry, or to a command that *)
(* has saved and ran at the same time: nobody else costs it its entry, for *)
(* any number of commands that race, fail and are killed.                  *)
THEOREM LossesAreAllExplained == RegistrySpec => []LossesAreExplained
<1>1. RegistryInv => LossesAreExplained
  <2>. SUFFICES ASSUME RegistryInv, Readable, NEW k \in chain,
                       ~Running(k.by), phase[k.by] \notin {"failed", "killed"},
                       ~(k.try < tries[k.by]), ~Overwritten(k.by)
                PROVE  file[alias[k.by]] = k
    BY DEF LossesAreExplained, Overwritten
  <2>1. k \in Contract /\ k.by \in Commands /\ k.try \in Int /\ tries[k.by] \in Int
        /\ k = [by |-> k.by, try |-> k.try]
    BY DEF RegistryInv, RegistryTypeOK, Contract
  <2>2. phase[k.by] = "done"
    BY <2>1 DEF RegistryInv, RegistryTypeOK, ChainIsTried, Phases, Running
  <2>3. k.try = tries[k.by]
    BY <2>1 DEF RegistryInv, ChainIsTried
  <2>4. address[k.by] = k
    BY <2>1, <2>2, <2>3 DEF RegistryInv, AddressIsOwn, Deployed
  <2>. QED
    BY <2>1, <2>2, <2>4 DEF RegistryInv, SavedStays, Saved
<1>. QED
  BY <1>1, RegistryInvariant, PTL

(* If the file cannot be read, some command is writing, has reported an    *)
(* error or was killed, or two wrote at once: commands that succeed one    *)
(* after the other never leave it so.                                      *)
THEOREM DamageAlwaysNoticed == RegistrySpec => []DamageIsNoticed
<1>1. RegistryInv => DamageIsNoticed
  BY DEF RegistryInv
<1>. QED
  BY <1>1, RegistryInvariant, PTL
=============================================================================
