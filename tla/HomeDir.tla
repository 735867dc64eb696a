------------------------------- MODULE HomeDir -------------------------------
(***************************************************************************)
(* The home directory of a node: the files `init` writes                   *)
(* (gears/src/client/init.rs), those `run` and the consensus engine use,   *)
(* and the key files `keys add` writes (gears/src/client/keys/).           *)
(*                                                                         *)
(* Every file is created, which truncates it, and written later; a process *)
(* may end between any two steps, by a crash, a full disk or its user, and *)
(* be run again.  Nothing locks a file against another command.  A file's  *)
(* content is the run of init that wrote it: it stands for the validator   *)
(* key that run drew.                                                      *)
(***************************************************************************)
EXTENDS Integers, Sequences

CONSTANTS
    Name,      \* key names a user gives
    FileOf,    \* the file of each name: what follows a dot is replaced by .json
    Key,       \* the keys of the users' mnemonics
    Adder,     \* processes running keys add
    Missing,   \* no file, and no process
    Truncated, \* an empty file, or one written in part
    MaxRuns    \* bounds the runs of init

Run == 1..MaxRuns
HomeFile == {"config", "node_key", "priv_validator_key", "genesis",
             "priv_validator_state"}
KeyFile == {FileOf[n] : n \in Name}

ASSUME RunsAssumption == MaxRuns \in Nat \ {0}
ASSUME ContentAssumption == {Missing, Truncated} \cap (Run \cup Key) = {}

VARIABLES
    file,      \* the files of the home directory
    runs,      \* how often init was run
    step,      \* the steps the run under way has taken, Missing if there is none
    signer,    \* whose signatures the validator state file records, if any
    engine,    \* the validator key the running engine has loaded
    keyFile,   \* the key files
    adds       \* what each keys add has been given, Missing before its check

initVars == <<file, runs, step, signer, engine>>
vars == <<initVars, keyFile, adds>>

Add == [name: Name, overwrite: BOOLEAN, found: Key \cup {Missing, Truncated},
        key: Key \cup {Missing}]

TypeOK ==
    /\ file \in [HomeFile -> {Missing, Truncated} \cup Run]
    /\ runs \in 0..MaxRuns
    /\ step \in 0..10 \cup {Missing}
    /\ signer \in Run \cup {Missing} /\ engine \in Run \cup {Missing}
    /\ keyFile \in [KeyFile -> {Missing, Truncated} \cup Key]
    /\ adds \in [Adder -> Add \cup {Missing}]

-----------------------------------------------------------------------------
(* What init does to the files, in order.                                  *)
Create(f) == <<[op |-> "create", file |-> f]>>
Write(f) == <<[op |-> "write", file |-> f]>>

WriteTmConfig == Write("config")

WriteKeysAndGenesis ==
    Write("node_key") \o Write("priv_validator_key") \o Write("genesis")

WritePrivValidatorState == Write("priv_validator_state")

(* A wrong InitSteps: the validator state is reset before the keys. *)
InitStepsStateFirst ==
    Create("config") \o WriteTmConfig
      \o Create("priv_validator_state") \o WritePrivValidatorState
      \o Create("node_key") \o Create("priv_validator_key") \o Create("genesis")
      \o WriteKeysAndGenesis

InitSteps ==
    Create("config") \o WriteTmConfig
      \o Create("node_key") \o Create("priv_validator_key") \o Create("genesis")
      \o WriteKeysAndGenesis
      \o Create("priv_validator_state") \o WritePrivValidatorState

Init ==
    /\ file = [f \in HomeFile |-> Missing]
    /\ runs = 0 /\ step = Missing
    /\ signer = Missing /\ engine = Missing
    /\ keyFile = [f \in KeyFile |-> Missing]
    /\ adds = [p \in Adder |-> Missing]

\* One run of init at a time: init takes no lock that would keep a second run out,
\* and what two of them leave when they interleave is not modelled.
RunInitCommand ==
    /\ step = Missing
    /\ runs < MaxRuns
    /\ runs' = runs + 1
    /\ step' = 0
    /\ UNCHANGED <<file, signer, engine, keyFile, adds>>

InitStep ==
    /\ step # Missing
    /\ step < Len(InitSteps)
    /\ LET next == InitSteps[step + 1]
       IN  /\ file' = [file EXCEPT ![next.file] =
                         IF next.op = "create" THEN Truncated ELSE runs]
           /\ signer' = IF next.file = "priv_validator_state" THEN Missing ELSE signer
    /\ step' = IF step + 1 = Len(InitSteps) THEN Missing ELSE step + 1
    /\ UNCHANGED <<runs, engine, keyFile, adds>>

(* An error of a step, which prints it and exits, or the process's end. *)
InitStops ==
    /\ step # Missing
    /\ step' = Missing
    /\ UNCHANGED <<file, runs, signer, engine, keyFile, adds>>

-----------------------------------------------------------------------------
(* run, which opens the database and waits for the engine; and the engine, *)
(* which reads every file, keeps the key, and records what it signs.       *)
RunRunCommand ==
    /\ engine = Missing
    /\ \A f \in HomeFile : file[f] \in Run
    /\ engine' = file["priv_validator_key"]
    /\ UNCHANGED <<file, runs, step, signer, keyFile, adds>>

Sign ==
    /\ engine # Missing
    /\ file["priv_validator_state"] \in Run
    /\ signer' = engine
    /\ UNCHANGED <<file, runs, step, engine, keyFile, adds>>

EngineStops ==
    /\ engine # Missing
    /\ engine' = Missing
    /\ UNCHANGED <<file, runs, step, signer, keyFile, adds>>

-----------------------------------------------------------------------------
(* The key store.                                                          *)

(* A wrong GetKey: the extension is not set. *)
GetKeyWithoutExtension(name) == Missing

(* A file that is not there, or that is no key, is an error. *)
GetKey(name) ==
    IF keyFile[FileOf[name]] \in Key THEN keyFile[FileOf[name]] ELSE Missing

(* run_keys_command up to the user's mnemonic: check_key_exists.           *)
CheckKeyExists(p, name, overwrite) ==
    /\ adds[p] = Missing
    /\ GetKey(name) # Missing => overwrite
    /\ adds' = [adds EXCEPT ![p] =
                  [name |-> name, overwrite |-> overwrite,
                   found |-> keyFile[FileOf[name]], key |-> Missing]]
    /\ UNCHANGED <<initVars, keyFile>>

(* from_mnemonic, and the creation of the file by add_key.                 *)
CreateKeyFile(p, key) ==
    /\ adds[p] # Missing /\ adds[p].key = Missing
    /\ adds' = [adds EXCEPT ![p].key = key]
    /\ keyFile' = [keyFile EXCEPT ![FileOf[adds[p].name]] = Truncated]
    /\ UNCHANGED initVars

(* The rest of add_key. *)
WriteKeyFile(p) ==
    /\ adds[p] # Missing /\ adds[p].key # Missing
    /\ keyFile' = [keyFile EXCEPT ![FileOf[adds[p].name]] = adds[p].key]
    /\ adds' = [adds EXCEPT ![p] = Missing]
    /\ UNCHANGED initVars

(* No valid mnemonic, an error of a step, or the process's end. *)
AddStops(p) ==
    /\ adds[p] # Missing
    /\ adds' = [adds EXCEPT ![p] = Missing]
    /\ UNCHANGED <<initVars, keyFile>>

Next ==
    \/ RunInitCommand \/ InitStep \/ InitStops
    \/ RunRunCommand \/ Sign \/ EngineStops
    \/ \E p \in Adder, n \in Name, o \in BOOLEAN : CheckKeyExists(p, n, o)
    \/ \E p \in Adder, k \in Key : CreateKeyFile(p, k)
    \/ \E p \in Adder : WriteKeyFile(p) \/ AddStops(p)

Spec == Init /\ [][Next]_vars

-----------------------------------------------------------------------------
(* However often init was interrupted and run again: a genesis file names  *)
(* the validator whose key the key file holds, if it holds one; and the    *)
(* record of what a validator has signed, which keeps it from signing      *)
(* twice, is never reset while that validator's key is in the key file but *)
(* by the run of init that drew the key, if the engine was started in it.  *)
ValidatorFilesFit ==
    [][/\ file'["genesis"] \in Run /\ file'["priv_validator_key"] \in Run
            => file'["genesis"] = file'["priv_validator_key"]
       /\ signer # Missing /\ signer' = Missing
            => \/ file["priv_validator_key"] # signer
               \/ step # Missing /\ runs = signer]_vars

(* A key is lost only to an add that was told to overwrite, or that had    *)
(* checked its file before the key was there and was waiting for its       *)
(* mnemonic since; also when names share a file and adds are interrupted.  *)
KeysAreKept ==
    [][\A f \in KeyFile :
         keyFile[f] \in Key /\ keyFile'[f] # keyFile[f] =>
           \E p \in Adder :
             /\ adds[p] # Missing /\ FileOf[adds[p].name] = f
             /\ adds[p].overwrite \/ adds[p].found # keyFile[f]]_vars
=============================================================================
