--------------------------- MODULE HomeDir_proofs ---------------------------
(***************************************************************************)
(* Theorems about the home directory, for every set of key names and of    *)
(* commands adding keys, and any number of runs of init.                   *)
(***************************************************************************)
EXTENDS HomeDir, TLAPS

Op == [op: {"create", "write"}, file: HomeFile]

\* s is a sequence of n steps.
Steps(s, n) == s \in Seq(Op) /\ Len(s) = n

\* Concatenation, kept unexpanded for the provers.
Then(s, t) == s \o t

LEMMA OneStep ==
  ASSUME NEW f \in HomeFile
  PROVE  /\ Steps(Create(f), 1) /\ Create(f)[1] = [op |-> "create", file |-> f]
         /\ Steps(Write(f), 1) /\ Write(f)[1] = [op |-> "write", file |-> f]
BY DEF Steps, Create, Write, Op

LEMMA ThenSteps ==
  ASSUME NEW n \in Nat, NEW m \in Nat, NEW s, Steps(s, n), NEW t, Steps(t, m)
  PROVE  /\ Steps(Then(s, t), n + m)
         /\ \A i \in 1..n : Then(s, t)[i] = s[i]
         /\ \A i \in 1..m : Then(s, t)[n + i] = t[i]
<1>1. /\ s \o t \in Seq(Op)
      /\ Len(s \o t) = Len(s) + Len(t)
      /\ \A i \in 1..Len(s) : (s \o t)[i] = s[i]
      /\ \A i \in 1..Len(t) : (s \o t)[Len(s) + i] = t[i]
  BY DEF Steps
<1>2. Len(s) = n /\ Len(t) = m
  BY DEF Steps
<1>3. QED BY <1>1, <1>2 DEF Steps, Then

\* What each step of init does.
LEMMA StepsOfInit ==
  /\ Len(InitSteps) = 10
  /\ \A i \in 1..10 :
       /\ InitSteps[i].file \in HomeFile
       /\ InitSteps[i].file = "priv_validator_key" <=> i \in {4, 7}
       /\ InitSteps[i].file = "genesis" <=> i \in {5, 8}
       /\ InitSteps[i].file = "priv_validator_state" <=> i \in {9, 10}
       /\ InitSteps[i].op = "create" <=> i \in {1, 3, 4, 5, 9}
<1> DEFINE c(f) == [op |-> "create", file |-> f]
           w(f) == [op |-> "write", file |-> f]
           s2 == Then(Create("config"), WriteTmConfig)
           s3 == Then(s2, Create("node_key"))
           s4 == Then(s3, Create("priv_validator_key"))
           s5 == Then(s4, Create("genesis"))
           k2 == Then(Write("node_key"), Write("priv_validator_key"))
           s8 == Then(s5, WriteKeysAndGenesis)
           s9 == Then(s8, Create("priv_validator_state"))
<1>1. /\ "config" \in HomeFile /\ "node_key" \in HomeFile
      /\ "priv_validator_key" \in HomeFile /\ "genesis" \in HomeFile
      /\ "priv_validator_state" \in HomeFile
  BY DEF HomeFile
<1>2. \A f \in HomeFile : /\ Steps(Create(f), 1) /\ Create(f)[1] = c(f)
                          /\ Steps(Write(f), 1) /\ Write(f)[1] = w(f)
  BY OneStep
<1> HIDE DEF c, w
<1>3. Steps(s2, 2) /\ s2[1] = c("config") /\ s2[2] = w("config")
  <2>1. Steps(Create("config"), 1) /\ Steps(WriteTmConfig, 1)
    BY <1>1, <1>2 DEF WriteTmConfig
  <2>2. /\ Steps(Then(Create("config"), WriteTmConfig), 1 + 1)
        /\ \A i \in 1..1 : Then(Create("config"), WriteTmConfig)[i] = Create("config")[i]
        /\ \A i \in 1..1 : Then(Create("config"), WriteTmConfig)[1 + i] = WriteTmConfig[i]
    BY <2>1, ThenSteps
  <2>3. QED BY <1>1, <1>2, <2>2 DEF WriteTmConfig
<1> HIDE DEF s2
<1>4. Steps(s3, 3) /\ s3[3] = c("node_key") /\ \A i \in 1..2 : s3[i] = s2[i]
  <2>1. Steps(s2, 2) /\ Steps(Create("node_key"), 1)
    BY <1>1, <1>2, <1>3
  <2>2. /\ Steps(Then(s2, Create("node_key")), 2 + 1)
        /\ \A i \in 1..2 : Then(s2, Create("node_key"))[i] = s2[i]
        /\ \A i \in 1..1 : Then(s2, Create("node_key"))[2 + i] = Create("node_key")[i]
    BY <2>1, ThenSteps
  <2>3. QED BY <1>1, <1>2, <1>3, <2>2
<1> HIDE DEF s3
<1>5. /\ Steps(s4, 4) /\ s4[4] = c("priv_validator_key")
      /\ \A i \in 1..3 : s4[i] = s3[i]
  <2>1. Steps(s3, 3) /\ Steps(Create("priv_validator_key"), 1)
    BY <1>1, <1>2, <1>4
  <2>2. /\ Steps(Then(s3, Create("priv_validator_key")), 3 + 1)
        /\ \A i \in 1..3 : Then(s3, Create("priv_validator_key"))[i] = s3[i]
        /\ \A i \in 1..1 : Then(s3, Create("priv_validator_key"))[3 + i] = Create("priv_validator_key")[i]
    BY <2>1, ThenSteps
  <2>3. QED BY <1>1, <1>2, <1>4, <2>2
<1> HIDE DEF s4
<1>6. Steps(s5, 5) /\ s5[5] = c("genesis") /\ \A i \in 1..4 : s5[i] = s4[i]
  <2>1. Steps(s4, 4) /\ Steps(Create("genesis"), 1)
    BY <1>1, <1>2, <1>5
  <2>2. /\ Steps(Then(s4, Create("genesis")), 4 + 1)
        /\ \A i \in 1..4 : Then(s4, Create("genesis"))[i] = s4[i]
        /\ \A i \in 1..1 : Then(s4, Create("genesis"))[4 + i] = Create("genesis")[i]
    BY <2>1, ThenSteps
  <2>3. QED BY <1>1, <1>2, <1>5, <2>2
<1> HIDE DEF s5
<1>7. Steps(k2, 2) /\ k2[1] = w("node_key") /\ k2[2] = w("priv_validator_key")
  <2>1. Steps(Write("node_key"), 1) /\ Steps(Write("priv_validator_key"), 1)
    BY <1>1, <1>2
  <2>2. /\ Steps(Then(Write("node_key"), Write("priv_validator_key")), 1 + 1)
        /\ \A i \in 1..1 : Then(Write("node_key"), Write("priv_validator_key"))[i] = Write("node_key")[i]
        /\ \A i \in 1..1 : Then(Write("node_key"), Write("priv_validator_key"))[1 + i] = Write("priv_validator_key")[i]
    BY <2>1, ThenSteps
  <2>3. QED BY <1>1, <1>2, <2>2
<1> HIDE DEF k2
<1>8. /\ Steps(WriteKeysAndGenesis, 3)
      /\ WriteKeysAndGenesis[3] = w("genesis")
      /\ \A i \in 1..2 : WriteKeysAndGenesis[i] = k2[i]
  <2>1. Steps(k2, 2) /\ Steps(Write("genesis"), 1)
    BY <1>1, <1>2, <1>7
  <2>2. /\ Steps(Then(k2, Write("genesis")), 2 + 1)
        /\ \A i \in 1..2 : Then(k2, Write("genesis"))[i] = k2[i]
        /\ \A i \in 1..1 : Then(k2, Write("genesis"))[2 + i] = Write("genesis")[i]
    BY <2>1, ThenSteps
  <2>3. WriteKeysAndGenesis = Then(k2, Write("genesis"))
    BY DEF WriteKeysAndGenesis, Then, k2
  <2>4. QED BY <1>1, <1>2, <2>2, <2>3
<1>9. /\ Steps(s8, 8) /\ \A i \in 1..5 : s8[i] = s5[i]
      /\ \A i \in 1..3 : s8[5 + i] = WriteKeysAndGenesis[i]
  <2>1. Steps(s5, 5) /\ Steps(WriteKeysAndGenesis, 3)
    BY <1>6, <1>8
  <2> DEFINE t == WriteKeysAndGenesis
  <2>2. /\ Steps(Then(s5, t), 5 + 3)
        /\ \A i \in 1..5 : Then(s5, t)[i] = s5[i]
        /\ \A i \in 1..3 : Then(s5, t)[5 + i] = t[i]
    <3> HIDE DEF t
    <3>1. \A n, m \in Nat : Steps(s5, n) /\ Steps(t, m) =>
            /\ Steps(Then(s5, t), n + m)
            /\ \A i \in 1..n : Then(s5, t)[i] = s5[i]
            /\ \A i \in 1..m : Then(s5, t)[n + i] = t[i]
      BY ThenSteps
    <3>2. Steps(s5, 5) /\ Steps(t, 3)
      BY <2>1 DEF t
    <3>3. QED BY <3>1, <3>2
  <2>3. QED BY <1>6, <1>8, <2>2
<1> HIDE DEF s8
<1>10. /\ Steps(s9, 9) /\ s9[9] = c("priv_validator_state")
      /\ \A i \in 1..8 : s9[i] = s8[i]
  <2>1. Steps(s8, 8) /\ Steps(Create("priv_validator_state"), 1)
    BY <1>1, <1>2, <1>9
  <2>2. /\ Steps(Then(s8, Create("priv_validator_state")), 8 + 1)
        /\ \A i \in 1..8 : Then(s8, Create("priv_validator_state"))[i] = s8[i]
        /\ \A i \in 1..1 : Then(s8, Create("priv_validator_state"))[8 + i] = Create("priv_validator_state")[i]
    BY <2>1, ThenSteps
  <2>3. QED BY <1>1, <1>2, <1>9, <2>2
<1> HIDE DEF s9
<1>11. /\ Steps(InitSteps, 10) /\ InitSteps[10] = w("priv_validator_state")
      /\ \A i \in 1..9 : InitSteps[i] = s9[i]
  <2>1. Steps(s9, 9) /\ Steps(Write("priv_validator_state"), 1)
    BY <1>1, <1>2, <1>10
  <2>2. /\ Steps(Then(s9, Write("priv_validator_state")), 9 + 1)
        /\ \A i \in 1..9 : Then(s9, Write("priv_validator_state"))[i] = s9[i]
        /\ \A i \in 1..1 : Then(s9, Write("priv_validator_state"))[9 + i] = Write("priv_validator_state")[i]
    BY <2>1, ThenSteps
  <2>3. InitSteps = Then(s9, Write("priv_validator_state"))
    BY DEF InitSteps, Then, s9, s8, s5, s4, s3, s2, WritePrivValidatorState
  <2>4. QED BY <1>1, <1>2, <2>2, <2>3
<1>12. /\ InitSteps[1] = c("config") /\ InitSteps[2] = w("config")
       /\ InitSteps[3] = c("node_key") /\ InitSteps[4] = c("priv_validator_key")
       /\ InitSteps[5] = c("genesis")
  BY <1>3, <1>4, <1>5, <1>6, <1>9, <1>10, <1>11
<1>13. /\ s8[5 + 1] = w("node_key") /\ s8[5 + 2] = w("priv_validator_key")
       /\ s8[5 + 3] = w("genesis")
  BY <1>7, <1>8, <1>9
<1>14. /\ InitSteps[6] = w("node_key") /\ InitSteps[7] = w("priv_validator_key")
       /\ InitSteps[8] = w("genesis") /\ InitSteps[9] = c("priv_validator_state")
       /\ InitSteps[10] = w("priv_validator_state")
  BY <1>10, <1>11, <1>13
<1>15. Len(InitSteps) = 10
  BY <1>11 DEF Steps
<1>16. \A i \in 1..10 : i \in {1, 2, 3, 4, 5, 6, 7, 8, 9, 10}
  OBVIOUS
<1>17. QED BY <1>12, <1>14, <1>15, <1>16 DEF HomeFile, c, w

-----------------------------------------------------------------------------
(* The invariant.                                                          *)

\* The genesis file and the key file are truncated before either is written,
\* and the key is the run's own before the validator state is touched.
FilesInv ==
  /\ file["genesis"] \in Run /\ file["priv_validator_key"] \in Run
       => file["genesis"] = file["priv_validator_key"]
  /\ step # Missing =>
       /\ step \in 0..9 /\ runs \in Run
       /\ step \in 4..6 => file["priv_validator_key"] = Truncated
       /\ step \in 5..7 => file["genesis"] = Truncated
       /\ step \in 7..9 => file["priv_validator_key"] = runs
       /\ step \in 8..9 => file["genesis"] = runs

\* An add that may not overwrite found no key in its file.
AddsInv ==
  \A p \in Adder :
    adds[p] # Missing /\ ~adds[p].overwrite => adds[p].found \notin Key

HomeInv == TypeOK /\ FilesInv /\ AddsInv

LEMMA HomeInvInit == Init => HomeInv
BY RunsAssumption, ContentAssumption
   DEF Init, HomeInv, TypeOK, FilesInv, AddsInv, HomeFile, Run

LEMMA FilesStep ==
  ASSUME HomeInv, [Next]_vars
  PROVE  FilesInv'
<1>1. TypeOK /\ FilesInv
  BY DEF HomeInv
<1> USE DEF FilesInv
<1>2. CASE RunInitCommand
  <2>1. runs' \in Run
    BY <1>1, <1>2, RunsAssumption DEF RunInitCommand, TypeOK, Run
  <2>2. QED BY <1>1, <1>2, <2>1 DEF RunInitCommand
<1>3. CASE InitStep
  <2> DEFINE next == InitSteps[step + 1]
             g == "genesis"
             k == "priv_validator_key"
  <2>1. step \in 0..9 /\ step # Missing /\ runs \in Run /\ runs' = runs
    BY <1>1, <1>3 DEF InitStep
  <2>2. step + 1 \in 1..10
    BY <2>1
  <2>3. /\ next.file \in HomeFile
        /\ next.file = k <=> step + 1 \in {4, 7}
        /\ next.file = g <=> step + 1 \in {5, 8}
        /\ next.op = "create" <=> step + 1 \in {1, 3, 4, 5, 9}
    BY <2>2, StepsOfInit
  <2>4. file' = [file EXCEPT ![next.file] =
                   IF next.op = "create" THEN Truncated ELSE runs]
    BY <1>3 DEF InitStep
  <2>5. step' = IF step + 1 = 10 THEN Missing ELSE step + 1
    BY <1>3, StepsOfInit DEF InitStep
  <2> HIDE DEF next
  <2>6. \A f \in HomeFile :
          file'[f] = IF f = next.file
                     THEN IF next.op = "create" THEN Truncated ELSE runs
                     ELSE file[f]
    BY <1>1, <2>4 DEF TypeOK
  <2>7. /\ file'[k] = IF step = 3 THEN Truncated ELSE IF step = 6 THEN runs ELSE file[k]
        /\ file'[g] = IF step = 4 THEN Truncated ELSE IF step = 7 THEN runs ELSE file[g]
    <3>1. k \in HomeFile /\ g \in HomeFile
      BY DEF HomeFile
    <3>2. /\ file'[k] = IF step + 1 \in {4, 7}
                        THEN IF next.op = "create" THEN Truncated ELSE runs
                        ELSE file[k]
          /\ file'[g] = IF step + 1 \in {5, 8}
                        THEN IF next.op = "create" THEN Truncated ELSE runs
                        ELSE file[g]
      BY <2>3, <2>6, <3>1
    <3>3. /\ step = 3 => next.op = "create"
          /\ step = 6 => next.op # "create"
          /\ step = 4 => next.op = "create"
          /\ step = 7 => next.op # "create"
      BY <2>1, <2>3
    <3>4. /\ step + 1 \in {4, 7} <=> step = 3 \/ step = 6
          /\ step + 1 \in {5, 8} <=> step = 4 \/ step = 7
          /\ step # 3 \/ step # 6
          /\ step # 4 \/ step # 7
      BY <2>1
    <3>5. QED BY <3>2, <3>3, <3>4
  <2>8. Truncated \notin Run
    BY ContentAssumption
  <2>9. step \in {0, 1, 2, 3, 4, 5, 6, 7, 8, 9}
    BY <2>1
  <2>10. QED BY <1>1, <2>1, <2>5, <2>7, <2>8, <2>9
<1>4. CASE InitStops
  BY <1>1, <1>4 DEF InitStops
<1>5. CASE UNCHANGED <<file, runs, step>>
  BY <1>1, <1>5
<1>6. QED
  BY <1>2, <1>3, <1>4, <1>5
     DEF Next, vars, initVars, RunRunCommand, Sign, EngineStops, CheckKeyExists,
         CreateKeyFile, WriteKeyFile, AddStops

LEMMA AddsStep ==
  ASSUME HomeInv, [Next]_vars
  PROVE  AddsInv'
<1>1. TypeOK /\ AddsInv
  BY DEF HomeInv
<1>2. ASSUME NEW p \in Adder, NEW n \in Name, NEW o \in BOOLEAN, CheckKeyExists(p, n, o)
      PROVE  AddsInv'
  <2> DEFINE a == [name |-> n, overwrite |-> o, found |-> keyFile[FileOf[n]],
                   key |-> Missing]
  <2>1. ~o => keyFile[FileOf[n]] \notin Key
    <3>1. SUFFICES ASSUME ~o, keyFile[FileOf[n]] \in Key PROVE FALSE
      OBVIOUS
    <3>2. GetKey(n) = Missing /\ GetKey(n) \in Key
      BY <1>2, <3>1 DEF CheckKeyExists, GetKey
    <3>3. QED BY <3>2, ContentAssumption
  <2>2. ~a.overwrite => a.found \notin Key
    BY <2>1
  <2>3. adds' = [adds EXCEPT ![p] = a]
    BY <1>2 DEF CheckKeyExists
  <2> HIDE DEF a
  <2>4. QED BY <1>1, <2>2, <2>3 DEF AddsInv, TypeOK
<1>3. ASSUME NEW p \in Adder, NEW k \in Key, CreateKeyFile(p, k)
      PROVE  AddsInv'
  <2>1. adds[p] \in Add
    BY <1>1, <1>3 DEF TypeOK, CreateKeyFile
  <2> DEFINE a == [adds[p] EXCEPT !.key = k]
  <2>2. a.overwrite = adds[p].overwrite /\ a.found = adds[p].found
    BY <2>1 DEF Add
  <2>3. adds' = [adds EXCEPT ![p] = a] /\ adds[p] # Missing
    BY <1>3 DEF CreateKeyFile
  <2> HIDE DEF a
  <2>4. QED BY <1>1, <2>2, <2>3 DEF AddsInv, TypeOK
<1>4. ASSUME NEW p \in Adder, WriteKeyFile(p) \/ AddStops(p)
      PROVE  AddsInv'
  BY <1>1, <1>4 DEF AddsInv, TypeOK, WriteKeyFile, AddStops
<1>5. CASE UNCHANGED adds
  BY <1>1, <1>5 DEF AddsInv
<1>6. QED
  BY <1>2, <1>3, <1>4, <1>5
     DEF Next, vars, RunInitCommand, InitStep, InitStops, RunRunCommand, Sign,
         EngineStops

LEMMA TypesStep ==
  ASSUME HomeInv, [Next]_vars
  PROVE  TypeOK'
<1>1. TypeOK /\ FilesInv
  BY DEF HomeInv
<1> USE DEF TypeOK
<1>2. CASE RunInitCommand
  BY <1>1, <1>2, RunsAssumption DEF RunInitCommand
<1>3. CASE InitStep
  <2>1. step \in 0..9 /\ runs \in Run
    BY <1>1, <1>3 DEF InitStep, FilesInv
  <2>2. step + 1 \in 1..10
    BY <2>1
  <2>3. InitSteps[step + 1].file \in HomeFile
    BY <2>2, StepsOfInit
  <2>4. /\ file' = [file EXCEPT ![InitSteps[step + 1].file] =
                      IF InitSteps[step + 1].op = "create" THEN Truncated ELSE runs]
        /\ signer' = Missing \/ signer' = signer
        /\ step' = Missing \/ step' = step + 1
        /\ UNCHANGED <<runs, engine, keyFile, adds>>
    BY <1>3 DEF InitStep
  <2>5. step' \in 0..10 \cup {Missing}
    BY <2>2, <2>4
  <2> DEFINE c == IF InitSteps[step + 1].op = "create" THEN Truncated ELSE runs
  <2>6. c \in {Missing, Truncated} \cup Run
    BY <2>1
  <2>7. file' = [file EXCEPT ![InitSteps[step + 1].file] = c]
    BY <2>4
  <2> HIDE DEF c
  <2>8. file' \in [HomeFile -> {Missing, Truncated} \cup Run]
    BY <1>1, <2>3, <2>6, <2>7
  <2>9. QED BY <1>1, <2>4, <2>5, <2>8
<1>4. CASE InitStops \/ EngineStops \/ Sign \/ UNCHANGED vars
  BY <1>1, <1>4 DEF InitStops, EngineStops, Sign, vars, initVars
<1>5. CASE RunRunCommand
  BY <1>1, <1>5 DEF RunRunCommand, HomeFile
<1>6. ASSUME NEW p \in Adder, NEW n \in Name, NEW o \in BOOLEAN, CheckKeyExists(p, n, o)
      PROVE  TypeOK'
  <2>1. keyFile[FileOf[n]] \in Key \cup {Missing, Truncated}
    BY <1>1 DEF KeyFile
  <2> DEFINE a == [name |-> n, overwrite |-> o, found |-> keyFile[FileOf[n]],
                   key |-> Missing]
  <2>2. a \in Add
    BY <2>1 DEF Add
  <2>3. adds' = [adds EXCEPT ![p] = a] /\ UNCHANGED <<initVars, keyFile>>
    BY <1>6 DEF CheckKeyExists
  <2> HIDE DEF a
  <2>4. adds' \in [Adder -> Add \cup {Missing}]
    BY <1>1, <2>2, <2>3
  <2>5. QED BY <1>1, <2>3, <2>4 DEF initVars
<1>7. ASSUME NEW p \in Adder, NEW k \in Key, CreateKeyFile(p, k)
      PROVE  TypeOK'
  <2>1. adds[p] \in Add /\ FileOf[adds[p].name] \in KeyFile
    BY <1>1, <1>7 DEF CreateKeyFile, Add, KeyFile
  <2> DEFINE a == [adds[p] EXCEPT !.key = k]
  <2>2. a \in Add
    BY <2>1 DEF Add
  <2>3. /\ adds' = [adds EXCEPT ![p] = a]
        /\ keyFile' = [keyFile EXCEPT ![FileOf[adds[p].name]] = Truncated]
        /\ UNCHANGED initVars
    BY <1>7 DEF CreateKeyFile
  <2> HIDE DEF a
  <2>4. adds' \in [Adder -> Add \cup {Missing}]
    BY <1>1, <2>2, <2>3
  <2>5. keyFile' \in [KeyFile -> {Missing, Truncated} \cup Key]
    BY <1>1, <2>1, <2>3
  <2>6. QED BY <1>1, <2>3, <2>4, <2>5 DEF initVars
<1>8. ASSUME NEW p \in Adder, WriteKeyFile(p)
      PROVE  TypeOK'
  <2>1. adds[p] \in Add /\ FileOf[adds[p].name] \in KeyFile /\ adds[p].key \in Key
    BY <1>1, <1>8 DEF WriteKeyFile, Add, KeyFile
  <2>2. keyFile' \in [KeyFile -> {Missing, Truncated} \cup Key]
    BY <1>1, <1>8, <2>1 DEF WriteKeyFile
  <2>3. QED BY <1>1, <1>8, <2>2 DEF WriteKeyFile, initVars
<1>9. ASSUME NEW p \in Adder, AddStops(p)
      PROVE  TypeOK'
  BY <1>1, <1>9 DEF AddStops, initVars
<1>10. QED
  BY <1>2, <1>3, <1>4, <1>5, <1>6, <1>7, <1>8, <1>9 DEF Next

LEMMA HomeInvStep == HomeInv /\ [Next]_vars => HomeInv'
BY TypesStep, FilesStep, AddsStep DEF HomeInv

-----------------------------------------------------------------------------

\* However often init is interrupted and run again, the genesis file and the
\* key file fit, and a validator's signing record survives its key.
THEOREM ValidatorFilesAlwaysFit == Spec => ValidatorFilesFit
<1> DEFINE Fit ==
      /\ file'["genesis"] \in Run /\ file'["priv_validator_key"] \in Run
           => file'["genesis"] = file'["priv_validator_key"]
      /\ signer # Missing /\ signer' = Missing
           => \/ file["priv_validator_key"] # signer
              \/ step # Missing /\ runs = signer
<1>1. HomeInv /\ HomeInv' /\ [Next]_vars => [Fit]_vars
  <2> SUFFICES ASSUME HomeInv, HomeInv', Next PROVE Fit
    OBVIOUS
  <2>1. file'["genesis"] \in Run /\ file'["priv_validator_key"] \in Run
          => file'["genesis"] = file'["priv_validator_key"]
    BY DEF HomeInv, FilesInv
  <2>2. CASE InitStep
    <3>1. step \in 0..9 /\ step # Missing
      BY <2>2 DEF InitStep, HomeInv, FilesInv
    <3>2. step + 1 \in 1..10
      BY <3>1
    <3>3. InitSteps[step + 1].file = "priv_validator_state" <=> step + 1 \in {9, 10}
      BY <3>2, StepsOfInit
    <3>4. signer # Missing /\ signer' = Missing => step \in {8, 9}
      BY <2>2, <3>1, <3>3 DEF InitStep
    <3>5. step \in {8, 9} => file["priv_validator_key"] = runs
      BY <3>1 DEF HomeInv, FilesInv
    <3>6. QED BY <2>1, <3>1, <3>4, <3>5
  <2>3. CASE Sign
    BY <2>1, <2>3 DEF Sign
  <2>4. CASE signer' = signer
    BY <2>1, <2>4
  <2>5. QED
    BY <2>2, <2>3, <2>4
       DEF Next, initVars, RunInitCommand, InitStops, RunRunCommand, EngineStops,
           CheckKeyExists, CreateKeyFile, WriteKeyFile, AddStops
<1>2. QED
  BY <1>1, HomeInvInit, HomeInvStep, PTL DEF Spec, ValidatorFilesFit

\* A key is lost only to an add told to overwrite or one that checked its file
\* before the key was there.
THEOREM KeysAreAlwaysKept == Spec => KeysAreKept
<1> DEFINE Kept ==
      \A f \in KeyFile :
        keyFile[f] \in Key /\ keyFile'[f] # keyFile[f] =>
          \E p \in Adder :
            /\ adds[p] # Missing /\ FileOf[adds[p].name] = f
            /\ adds[p].overwrite \/ adds[p].found # keyFile[f]
<1>1. HomeInv /\ [Next]_vars => [Kept]_vars
  <2> SUFFICES ASSUME HomeInv, Next PROVE Kept
    OBVIOUS
  <2>1. ASSUME NEW p \in Adder, adds[p] # Missing, NEW c,
               keyFile' = [keyFile EXCEPT ![FileOf[adds[p].name]] = c]
        PROVE  Kept
    <3> SUFFICES ASSUME NEW f \in KeyFile, keyFile[f] \in Key, keyFile'[f] # keyFile[f]
                 PROVE  /\ FileOf[adds[p].name] = f
                        /\ adds[p].overwrite \/ adds[p].found # keyFile[f]
      BY <2>1
    <3>1. FileOf[adds[p].name] = f
      BY <2>1 DEF HomeInv, TypeOK
    <3>2. ~adds[p].overwrite => adds[p].found \notin Key
      BY <2>1 DEF HomeInv, AddsInv
    <3>3. QED BY <3>1, <3>2
  <2>2. CASE keyFile' = keyFile
    BY <2>2
  <2>3. ASSUME NEW p \in Adder, NEW k \in Key, CreateKeyFile(p, k)
        PROVE  Kept
    BY <2>1, <2>3 DEF CreateKeyFile
  <2>4. ASSUME NEW p \in Adder, WriteKeyFile(p)
        PROVE  Kept
    BY <2>1, <2>4 DEF WriteKeyFile
  <2>5. QED
    BY <2>2, <2>3, <2>4
       DEF Next, RunInitCommand, InitStep, InitStops, RunRunCommand, Sign,
           EngineStops, CheckKeyExists, AddStops
<1>2. QED
  BY <1>1, HomeInvInit, HomeInvStep, PTL DEF Spec, KeysAreKept

=============================================================================
