------------------------- MODULE ContractRegistry --------------------------
(***************************************************************************)
(* The file of contract names, ~/.tezos-client/contracts, and the commands *)
(* that add to it: `x4cli fa2 originate` and `x4cli custodian originate`   *)
(* (cmd/x4cli/*_originate.go) with LoadClient, Originate and SaveContract  *)
(* of pkg/tzclient/tzclient.go.  Each command is a process of its own,     *)
(* that ends at any point if it is killed.                                 *)
(***************************************************************************)
EXTENDS Integers, FiniteSets

CONSTANTS
    Commands,       \* the commands that are run
    Names,          \* the aliases they are given
    None,           \* no contract
    Truncated,      \* the file, opened for writing and not yet written
    Garbled,        \* the file, written by two commands at once
    MaxRetries      \* maxRetries

(* A contract: the command that originated it, and at which try. *)
Contract == [by : Commands, try : Nat]

(* What a name stands for. *)
Contracts == [Names -> Contract \cup {None}]

NoContracts == [n \in Names |-> None]

ASSUME RegistryAssumption ==
    /\ MaxRetries \in Nat
    /\ None \notin Contract
    /\ Truncated \notin Contracts /\ Garbled \notin Contracts
    /\ Truncated # Garbled

VARIABLES
    file,           \* the contracts by name, or Truncated or Garbled
    chain,          \* the contracts that were originated
    phase,          \* per command: where it is
    alias,          \* per command: the name it was given
    known,          \* per command: the contracts it has loaded
    address,        \* per command: the contract it has originated
    tries,          \* per command: tries of Originate
    beside          \* history, per command: the commands it ran beside

commandVars == <<phase, alias, known, address, tries>>
vars == <<file, chain, commandVars, beside>>

Phases == {"idle", "originate", "save", "write", "done", "failed", "killed"}

Readable == file \notin {Truncated, Garbled}

Running(c) == phase[c] \in {"originate", "save", "write"}

RegistryInit ==
    /\ file = NoContracts
    /\ chain = {}
    /\ phase = [c \in Commands |-> "idle"]
    /\ alias \in [Commands -> Names]
    /\ known = [c \in Commands |-> NoContracts]
    /\ address = [c \in Commands |-> None]
    /\ tries = [c \in Commands |-> 0]
    /\ beside = [c \in Commands |-> {}]

Become(c, p) == phase' = [phase EXCEPT ![c] = p]

-----------------------------------------------------------------------------
(* The command begins beside those that are running.                       *)
BegunBeside(c) ==
    LET others == {d \in Commands : Running(d)}
    IN  [d \in Commands |-> IF d = c THEN others
                            ELSE IF d \in others THEN beside[d] \cup {c}
                            ELSE beside[d]]

(* A file that does not decode ends the command, and so does an alias that *)
(* is taken.                                                               *)
LoadClient(c) ==
    /\ phase[c] = "idle"
    /\ \/ /\ Readable /\ file[alias[c]] = None
          /\ known' = [known EXCEPT ![c] = file]
          /\ beside' = BegunBeside(c)
          /\ Become(c, "originate")
       \/ /\ Readable => file[alias[c]] # None
          /\ Become(c, "failed")
          /\ UNCHANGED <<known, beside>>
    /\ UNCHANGED <<file, chain, alias, address, tries>>

Deployed(c) == [by |-> c, try |-> tries[c]]

(* Mutant: the bound is off by one. *)
MayRetryOnceMore(c) == tries[c] <= MaxRetries

MayRetry(c) == tries[c] < MaxRetries

(* Mutant: an error of the last try goes unnoticed. *)
OriginateUnchecked(c) ==
    /\ phase[c] = "originate"
    /\ address' = [address EXCEPT ![c] = Deployed(c)]
    /\ Become(c, "save")
    /\ \E taken \in BOOLEAN :
          chain' = IF taken THEN chain \cup {Deployed(c)} ELSE chain
    /\ UNCHANGED <<file, alias, known, tries, beside>>

(* Each try deploys the contract anew.  If only the answer is lost, there  *)
(* is a contract whose address the command has not been told.              *)
Originate(c) ==
    /\ phase[c] = "originate"
    /\ \/ /\ chain' = chain \cup {Deployed(c)}
          /\ address' = [address EXCEPT ![c] = Deployed(c)]
          /\ Become(c, "save")
          /\ UNCHANGED tries
       \/ /\ \E taken \in BOOLEAN :
                chain' = IF taken THEN chain \cup {Deployed(c)} ELSE chain
          /\ \/ /\ MayRetry(c)
                /\ tries' = [tries EXCEPT ![c] = @ + 1]
                /\ UNCHANGED phase
             \/ Become(c, "failed") /\ UNCHANGED tries
          /\ UNCHANGED address
    /\ UNCHANGED <<file, alias, known, beside>>

(* Mutant: only the new contract is written. *)
NewContentsAlone(c) == [NoContracts EXCEPT ![alias[c]] = address[c]]

(* The new file: what was loaded, and the new contract.                    *)
NewContents(c) == [known[c] EXCEPT ![alias[c]] = address[c]]

(* WriteFile empties the file when it opens it.                            *)
OpenFile(c) ==
    /\ phase[c] = "save"
    /\ \/ file' = Truncated /\ Become(c, "write")
       \/ UNCHANGED file /\ Become(c, "failed")
    /\ UNCHANGED <<chain, alias, known, address, tries, beside>>

(* Mutant: an error of WriteFile is not passed on. *)
WriteFileUnchecked(c) ==
    /\ phase[c] = "write"
    /\ \/ file' = NewContents(c)
       \/ file # Truncated /\ file' = Garbled
       \/ UNCHANGED file
    /\ Become(c, "done")
    /\ UNCHANGED <<chain, alias, known, address, tries, beside>>

(* Two commands that have both emptied the file write over each other, and *)
(* what is longer shows at the end.                                        *)
WriteFile(c) ==
    /\ phase[c] = "write"
    /\ \/ file' = NewContents(c) /\ Become(c, "done")
       \/ file # Truncated /\ file' = Garbled /\ Become(c, "done")
       \/ UNCHANGED file /\ Become(c, "failed")
    /\ UNCHANGED <<chain, alias, known, address, tries, beside>>

Kill(c) ==
    /\ Running(c)
    /\ Become(c, "killed")
    /\ UNCHANGED <<file, chain, alias, known, address, tries, beside>>

RegistryNext ==
    \E c \in Commands :
        LoadClient(c) \/ Originate(c) \/ OpenFile(c) \/ WriteFile(c) \/ Kill(c)

RegistrySpec == RegistryInit /\ [][RegistryNext]_vars

-----------------------------------------------------------------------------
RegistryTypeOK ==
    /\ file \in Contracts \cup {Truncated, Garbled}
    /\ chain \subseteq Contract
    /\ phase \in [Commands -> Phases]
    /\ alias \in [Commands -> Names]
    /\ known \in [Commands -> Contracts]
    /\ address \in [Commands -> Contract \cup {None}]
    /\ tries \in [Commands -> 0..MaxRetries]
    /\ beside \in [Commands -> SUBSET Commands]

(* A name in the file is that of a contract on the chain, originated by a  *)
(* command that was given this name.                                       *)
NamesAreTrue ==
    Readable => \A n \in Names : file[n] # None =>
                   file[n] \in chain /\ alias[file[n].by] = n

(* Where a contract on the chain can be, if not in the list: with a command *)
(* that runs, reported an error or was killed; with none, if it is of an    *)
(* earlier try; or overwritten by a command that has saved and ran at the   *)
(* same time.  Commands that fail or are killed cost no other its entry,    *)
(* and neither does any that ran earlier or later.                          *)
LossesAreExplained ==
    Readable => \A k \in chain :
        \/ file[alias[k.by]] = k
        \/ Running(k.by) \/ phase[k.by] \in {"failed", "killed"}
        \/ k.try < tries[k.by]
        \/ \E d \in beside[k.by] : phase[d] = "done"

(* A list that cannot be read is the doing of a command that had something  *)
(* to save and is writing, has reported an error or was killed, or of two   *)
(* at once: commands that succeed one after the other never leave one.      *)
DamageIsNoticed ==
    /\ file = Truncated =>
          \E c \in Commands : /\ address[c] # None
                              /\ phase[c] \in {"write", "failed", "killed"}
    /\ file = Garbled =>
          \E c \in Commands : phase[c] = "done" /\ beside[c] # {}
=============================================================================
