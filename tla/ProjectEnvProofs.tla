-------------------------- MODULE ProjectEnvProofs --------------------------
(***************************************************************************)
(* Theorems about ProjectEnv, for any shells, projects, models and build   *)
(* trees, and any number of config_prj.                                    *)
(*                                                                         *)
(* IInv says what is known at each step of a config_prj that is alone:     *)
(* SoloInv that nobody else writes the files then, FilesAt and VarAt that  *)
(* files and variables are those of the arguments from the step on that    *)
(* sets them, AgainAt what an equal call before has left, NewAt what a new *)
(* shell has sourced, and DefsInv that the functions a shell has are of    *)
(* projects that know their models.  SettledInv ties the files to the      *)
(* command they stem from, for the shells that come later.                 *)
(***************************************************************************)
EXTENDS ProjectEnv, TLAPS

\* What one shell does next.
ShellStep(s) ==
  \/ Open(s) \/ Close(s) \/ K(s) \/ \E c \in Command : Config(s, c)
  \/ WritePrj(s) \/ WriteConf(s) \/ WriteModel(s)
  \/ ReadPrj(s) \/ Extract(s) \/ Truncate(s) \/ Sed(s) \/ SourceModelEnv(s) \/ Sprjenv(s)
  \/ ReadConf(s) \/ BuildEnv(s) \/ Check(s)

\* The type of a shell's variables.
VarType ==
  [ Myprj : Project \cup {Unset},
    Hiconf : {ModelId[m] : m \in Model} \cup {PC, Unset},
    socid : Letter \cup {NoSoc},
    bld : (Project \cup {Unset}) \X (Letter \cup {NoSoc}),
    defs : [Model -> Project \cup {Unset}] ]

Label == {"closed", "ready", "exited", "write_prj", "write_conf", "write_model",
          "read_prj", "extract", "truncate", "sed", "source_model_env", "sprjenv",
          "read_conf", "build_env", "check"}
ExtractLabel == {"extract", "truncate", "sed"}
WriteLabel == {"write_prj", "write_conf", "write_model"}

\* What each job goes through, and its arguments.
JobAt(s) ==
  /\ job[s] = "start" =>
       pc[s] \in {"closed", "read_prj", "source_model_env", "sprjenv", "ready"} \cup ExtractLabel
  /\ job[s] = "config" => pc[s] # "closed" /\ pc[s] \notin ExtractLabel
  /\ job[s] = "k" => pc[s] \in {"read_conf", "build_env", "ready", "exited"}
  /\ IF job[s] = "config" THEN cmd[s] \in Command ELSE cmd[s] = NoCommand
  /\ pc[s] = "write_model" => cmd[s].prj # "wrns"
  /\ pc[s] \in {"source_model_env", "sprjenv"} \cup ExtractLabel => var[s].Myprj \in Project
  /\ pc[s] = "sed" => var[s].Myprj \in present

JobInv == pc \in [Shell -> Label] /\ \A s \in Shell : JobAt(s)

\* Nobody else is in config_prj during one that is alone, and nobody else comes
\* up with a new shell that is.
SoloInv ==
  \A s, t \in Shell : \A j \in {"start", "config"} :
    solo[s] /\ Doing(s, j) /\ Doing(t, j) => s = t

\* settled tells what the files say; it is empty while they are being written.
SettledInv ==
  /\ settled \in Command =>
       /\ myprj = settled.prj /\ hiconf = ConfOf(settled)
       /\ settled.prj # "wrns" => himodel = settled.model
  /\ \A s \in Shell : pc[s] \in {"write_conf", "write_model"} => settled = NoCommand

\* The steps of config_prj, and what holds after each when it is alone.
ConfRead == {"build_env", "check"}
BldSet == {"source_model_env", "read_conf"} \cup ConfRead
PrjRead == {"sprjenv"} \cup BldSet
AllWritten == {"read_prj"} \cup PrjRead
ConfWritten == {"write_model"} \cup AllWritten
PrjWritten == {"write_conf"} \cup ConfWritten

Alone(s) == job[s] = "config" /\ solo[s]

FilesAt(s) ==
  Alone(s) =>
    /\ pc[s] \in PrjWritten => myprj = cmd[s].prj
    /\ pc[s] \in ConfWritten => hiconf = ConfOf(cmd[s])
    /\ pc[s] \in AllWritten /\ cmd[s].prj # "wrns" => himodel = cmd[s].model

FilesInv == \A s \in Shell : FilesAt(s)

VarAt(s) ==
  Alone(s) =>
    /\ pc[s] \in PrjRead \cup {"ready"} => var[s].Myprj = cmd[s].prj
    /\ pc[s] \in BldSet \cup {"ready"} => var[s].bld[1] = cmd[s].prj
    /\ pc[s] \in ConfRead \cup {"ready"} => var[s].Hiconf = ConfOf(cmd[s])
    /\ pc[s] \in BldSet /\ (pc[s] = "check" => var[s].bld \notin Tree)
         => var[s].socid = var[s].bld[2]
    /\ pc[s] \in {"check", "ready"} /\ cmd[s].prj # "wrns" /\ var[s].bld \in Tree
         => var[s].socid = SocOf(cmd[s]) /\ SocOf(cmd[s]) # NoSoc
    /\ pc[s] = "ready" /\ warned[s] = "match" => var[s].socid = var[s].bld[2]

VarInv == \A s \in Shell : VarAt(s)

\* The second of two equal calls finds what it needs from the first.
AgainAt(s) ==
  job[s] = "config" /\ again[s] =>
    /\ cmd[s].prj # "wrns" /\ SocOf(cmd[s]) # NoSoc
    /\ pc[s] \in WriteLabel \cup {"read_prj", "sprjenv"} =>
         var[s].Hiconf # PC /\ var[s].defs[cmd[s].model] = cmd[s].prj
    /\ solo[s] /\ pc[s] \in BldSet \cup {"ready"} =>
         var[s].bld = <<cmd[s].prj, SocOf(cmd[s])>> /\ var[s].socid = SocOf(cmd[s])
    /\ solo[s] /\ pc[s] = "ready" => warned[s] = "match"

AgainInv == \A s \in Shell : AgainAt(s)

\* A new shell knows nothing until it sources the functions of its project; one
\* that is alone sources all of them if their file is whole.
NewAt(s) ==
  job[s] = "start" =>
    /\ var[s].Hiconf = Unset
    /\ pc[s] # "ready" => var[s].socid = NoSoc
    /\ pc[s] \notin {"sprjenv", "ready"} => \A m \in Model : var[s].defs[m] = Unset
    /\ pc[s] = "sprjenv" /\ solo[s] /\ var[s].Myprj \in extracted => \A m \in Model :
         var[s].defs[m] = IF Soc[var[s].Myprj][ModelId[m]] # NoSoc THEN var[s].Myprj ELSE Unset

NewInv == \A s \in Shell : NewAt(s)

\* A function that a shell has is of a project that knows its model.
DefsInv ==
  \A s \in Shell : \A m \in Model :
    var[s].defs[m] # Unset => Soc[var[s].defs[m]][ModelId[m]] # NoSoc

IInv ==
  /\ TypeOK /\ JobInv /\ SoloInv /\ SettledInv /\ FilesInv
  /\ VarInv /\ AgainInv /\ NewInv /\ DefsInv
-----------------------------------------------------------------------------
\* A known project's letter for a known model is a letter.
LEMMA LetterIn ==
  ASSUME NEW p \in Project, NEW m \in Model
  PROVE  Soc[p][ModelId[m]] \in Letter
BY DEF Letter

\* The arguments that config_prj accepts, lines 222 to 237.
LEMMA CommandFacts ==
  ASSUME NEW c \in Command
  PROVE  /\ c.prj \in Project
         /\ c # NoCommand
         /\ c.prj = "wrns" => ConfOf(c) = PC
         /\ c.prj # "wrns" =>
              /\ c.model \in Model /\ SocOf(c) \in Letter
              /\ ConfOf(c) = ModelId[c.model] /\ ConfOf(c) # PC
<1>1. /\ c.prj \in Project
      /\ c.prj # "wrns" => c.model \in Model
  BY DEF Command
<1>2. c # NoCommand
  BY <1>1, ProjectAssumption DEF NoCommand
<1>3. c.prj # "wrns" => ModelId[c.model] # PC
  BY <1>1, ModelIdAssumption
<1> QED
  BY <1>1, <1>2, <1>3, LetterIn DEF ConfOf, SocOf

\* A step of one shell leaves what the others know alone.
LEMMA Others ==
  ASSUME TypeOK, JobInv, NEW s \in Shell, ShellStep(s), NEW o \in Shell \ {s}
  PROVE  /\ pc'[o] = pc[o] /\ job'[o] = job[o] /\ cmd'[o] = cmd[o] /\ var'[o] = var[o]
         /\ warned'[o] = warned[o] /\ again'[o] = again[o]
         /\ solo'[o] => solo[o]
<1>1. ASSUME NEW j, Begin(s, j)
      PROVE  /\ job'[o] = job[o] /\ warned'[o] = warned[o]
             /\ solo'[o] => solo[o]
  BY <1>1 DEF Begin, TypeOK
<1>2. CASE Open(s)
  BY <1>1, <1>2 DEF Open, Step, history, TypeOK, JobInv
<1>3. CASE Close(s)
  BY <1>1, <1>3 DEF Close, Step, TypeOK, JobInv
<1>4. CASE K(s)
  BY <1>1, <1>4 DEF K, Step, TypeOK, JobInv
<1>5. CASE \E c \in Command : Config(s, c)
  BY <1>1, <1>5 DEF Config, Step, TypeOK, JobInv
<1>6. CASE WritePrj(s) \/ WriteConf(s) \/ WriteModel(s)
  BY <1>6 DEF WritePrj, WriteConf, WriteModel, Step, TypeOK, JobInv
<1>7. CASE ReadPrj(s) \/ Extract(s) \/ Truncate(s) \/ Sed(s) \/ SourceModelEnv(s) \/ Sprjenv(s)
  BY <1>7 DEF ReadPrj, Extract, Truncate, Sed, SourceModelEnv, Sprjenv, Step, history, TypeOK, JobInv
<1>8. CASE ReadConf(s) \/ BuildEnv(s) \/ Check(s)
  BY <1>8 DEF ReadConf, BuildEnv, Check, Step, history, TypeOK, JobInv
<1> QED
  BY <1>2, <1>3, <1>4, <1>5, <1>6, <1>7, <1>8 DEF ShellStep

\* Only config_prj writes the files that name project and model, and only a new
\* shell that extracts makes a file of functions whole.
LEMMA Writers ==
  ASSUME TypeOK, JobInv, NEW s \in Shell, ShellStep(s)
  PROVE  /\ pc[s] \notin WriteLabel => UNCHANGED <<myprj, hiconf, himodel, settled>>
         /\ pc[s] \in WriteLabel => Doing(s, "config")
         /\ extracted' \subseteq extracted \/ Doing(s, "start")
         /\ present \subseteq present'
<1>1. /\ pc[s] \in WriteLabel => Doing(s, "config")
      /\ pc[s] = "sed" => Doing(s, "start")
  BY DEF TypeOK, JobInv, JobAt, WriteLabel, ExtractLabel, Doing, Busy
<1>2. /\ pc[s] \notin WriteLabel => UNCHANGED <<myprj, hiconf, himodel, settled>>
      /\ extracted' \subseteq extracted \/ pc[s] = "sed"
      /\ present \subseteq present'
  BY DEF ShellStep, Open, Close, K, Config, WritePrj, WriteConf, WriteModel, ReadPrj, Extract,
         Truncate, Sed, SourceModelEnv, Sprjenv, ReadConf, BuildEnv, Check, Step, WriteLabel,
         files, functions, history
<1> QED
  BY <1>1, <1>2

\* A step leaves every shell's variables of their type.
LEMMA VarSteps ==
  ASSUME TypeOK, JobInv, NEW s \in Shell, ShellStep(s)
  PROVE  var' \in [Shell -> VarType]
<1>1. var \in [Shell -> VarType] /\ var[s] \in VarType
  BY DEF TypeOK, VarType
<1>2. CASE Open(s) \/ K(s) \/ (\E c \in Command : Config(s, c)) \/ WritePrj(s)
             \/ WriteConf(s) \/ WriteModel(s) \/ Extract(s) \/ Truncate(s) \/ Sed(s) \/ Check(s)
  BY <1>1, <1>2 DEF Open, K, Config, WritePrj, WriteConf, WriteModel, Extract, Truncate, Sed, Check
<1>3. CASE Close(s)
  <2>1. NewShell \in VarType
    BY DEF NewShell, VarType
  <2> QED
    BY <1>1, <1>3, <2>1 DEF Close
<1>4. CASE ReadPrj(s)
  <2>1. [var[s] EXCEPT !.Myprj = myprj] \in VarType
    BY <1>1 DEF TypeOK, VarType
  <2> QED
    BY <1>1, <1>4, <2>1 DEF ReadPrj
<1>5. CASE SourceModelEnv(s)
  <2>1. var[s].Myprj \in Project
    BY <1>5 DEF SourceModelEnv, Step, JobInv, JobAt
  <2> DEFINE defs(sourced) == [m \in Model |->
               IF m \in sourced /\ Soc[var[s].Myprj][ModelId[m]] # NoSoc
                 THEN var[s].Myprj ELSE var[s].defs[m]]
  <2>2. ASSUME NEW S PROVE defs(S) \in [Model -> Project \cup {Unset}]
    BY <1>1, <2>1 DEF VarType
  <2>4. PICK S : var' = [var EXCEPT ![s] = [var[s] EXCEPT !.defs = defs(S)]]
    BY <1>5 DEF SourceModelEnv
  <2> HIDE DEF defs
  <2>3. [var[s] EXCEPT !.defs = defs(S)] \in VarType
    BY <1>1, <2>2 DEF VarType
  <2> QED
    BY <1>1, <2>3, <2>4
<1>6. CASE Sprjenv(s)
  <2> DEFINE letter == IF var[s].Hiconf = PC THEN var[s].socid ELSE SocidFor(s, himodel)
  <2>1. var[s].Myprj \in Project /\ himodel \in Model
    BY <1>6 DEF Sprjenv, Step, JobInv, JobAt, TypeOK
  <2>2. var[s].defs[himodel] \in Project \cup {Unset} /\ var[s].socid \in Letter \cup {NoSoc}
    BY <1>1, <2>1 DEF VarType
  <2>3. letter \in Letter \cup {NoSoc}
    BY <2>1, <2>2, LetterIn DEF SocidFor
  <2>4. var' = [var EXCEPT ![s] = [[var[s] EXCEPT !.socid = letter]
                                    EXCEPT !.bld = <<var[s].Myprj, letter>>]]
    BY <1>1, <1>6 DEF Sprjenv
  <2> HIDE DEF letter
  <2>5. [[var[s] EXCEPT !.socid = letter] EXCEPT !.bld = <<var[s].Myprj, letter>>] \in VarType
    BY <1>1, <2>1, <2>3 DEF VarType
  <2> QED
    BY <1>1, <2>4, <2>5
<1>7. CASE ReadConf(s)
  <2>1. [var[s] EXCEPT !.Hiconf = hiconf] \in VarType
    BY <1>1 DEF TypeOK, VarType
  <2> QED
    BY <1>1, <1>7, <2>1 DEF ReadConf
<1>8. CASE BuildEnv(s)
  <2>1. ASSUME var[s].bld \in Tree, hiconf # PC
        PROVE  Soc[var[s].bld[1]][hiconf] \in Letter
    <3>1. var[s].bld[1] \in Project
      BY <2>1, TreeAssumption
    <3>2. PICK m \in Model : hiconf = ModelId[m]
      BY <2>1 DEF TypeOK
    <3> QED
      BY <3>1, <3>2, LetterIn
  <2>2. ASSUME NEW l \in Letter PROVE [var[s] EXCEPT !.socid = l] \in VarType
    BY <1>1 DEF VarType
  <2> QED
    BY <1>1, <1>8, <2>1, <2>2 DEF BuildEnv
<1> QED
  BY <1>2, <1>3, <1>4, <1>5, <1>6, <1>7, <1>8 DEF ShellStep

\* Every step keeps the types.
LEMMA TypeStep ==
  ASSUME TypeOK, JobInv, NEW s \in Shell, ShellStep(s)
  PROVE  TypeOK'
<1>1. /\ var' \in [Shell -> VarType]
      /\ \A c \in Command : c \in Command \cup {NoCommand}
  BY VarSteps
<1>2. ASSUME NEW j \in {"start", "config", "k"}, Begin(s, j)
      PROVE  /\ job' \in [Shell -> {"start", "config", "k"}]
             /\ warned' \in [Shell -> {"match", "mismatch"}]
             /\ solo' \in [Shell -> BOOLEAN]
  BY <1>2 DEF Begin, TypeOK
<1>3. CASE Open(s)
  BY <1>1, <1>2, <1>3 DEF Open, TypeOK, VarType, files, functions
<1>4. CASE Close(s)
  BY <1>1, <1>2, <1>4 DEF Close, TypeOK, VarType, files, functions
<1>5. CASE K(s)
  BY <1>1, <1>2, <1>5 DEF K, TypeOK, VarType, files, functions
<1>6. CASE \E c \in Command : Config(s, c)
  <2>1. PICK c \in Command : Config(s, c)
    BY <1>6
  <2>2. commands' \in 0..MaxCommands
    BY <2>1, BoundAssumption DEF Config, TypeOK
  <2>3. again' \in [Shell -> BOOLEAN]
    BY <2>1 DEF Config, TypeOK
  <2> QED
    BY <1>1, <1>2, <2>1, <2>2, <2>3 DEF Config, TypeOK, VarType, files, functions
<1>7. ASSUME pc[s] \in WriteLabel
      PROVE  cmd[s] \in Command /\ cmd[s].prj \in Project /\ ConfOf(cmd[s]) \in {ModelId[m] : m \in Model} \cup {PC}
  BY <1>7, CommandFacts, Writers DEF Doing, JobInv, JobAt
<1>8. CASE WritePrj(s)
  BY <1>1, <1>7, <1>8 DEF WritePrj, Step, WriteLabel, TypeOK, VarType, functions
<1>9. CASE WriteConf(s)
  BY <1>1, <1>7, <1>9 DEF WriteConf, Step, WriteLabel, TypeOK, VarType, functions
<1>10. CASE WriteModel(s)
  <2>1. cmd[s].model \in Model
    BY <1>7, <1>10, CommandFacts DEF WriteModel, Step, WriteLabel, JobInv, JobAt
  <2> QED
    BY <1>1, <1>7, <1>10, <2>1 DEF WriteModel, Step, WriteLabel, TypeOK, VarType, functions
<1>11. CASE Truncate(s) \/ Sed(s)
  <2>1. var[s].Myprj \in Project
    BY <1>11 DEF Truncate, Sed, Step, JobInv, JobAt, ExtractLabel
  <2>2. pc[s] = "sed" => var[s].Myprj \in present
    BY DEF JobInv, JobAt
  <2>3. /\ present' \subseteq Project /\ extracted' \subseteq present'
        /\ UNCHANGED <<myprj, hiconf, himodel, link, job, cmd, history, commands>>
    BY <1>11, <2>1, <2>2 DEF Truncate, Sed, Step, TypeOK
  <2> QED
    BY <1>1, <2>3 DEF TypeOK, VarType, history
<1>12. CASE ReadPrj(s) \/ Extract(s) \/ SourceModelEnv(s) \/ Sprjenv(s) \/ ReadConf(s) \/ BuildEnv(s)
  BY <1>1, <1>12 DEF ReadPrj, Extract, SourceModelEnv, Sprjenv, ReadConf, BuildEnv, TypeOK, VarType,
                    files, functions, history
<1>13. CASE Check(s)
  <2>1. var[s].socid \in Letter \cup {NoSoc}
    BY DEF TypeOK
  <2> QED
    BY <1>1, <1>13, <2>1 DEF Check, TypeOK, VarType, files, functions
<1> QED
  BY <1>3, <1>4, <1>5, <1>6, <1>8, <1>9, <1>10, <1>11, <1>12, <1>13 DEF ShellStep

\* Every job goes through its own steps, with its arguments.
LEMMA JobStep ==
  ASSUME TypeOK, JobInv, NEW s \in Shell, ShellStep(s)
  PROVE  JobInv'
<1> USE DEF JobAt, Step, Label, ExtractLabel, TypeOK
<1>0. ASSUME NEW o \in Shell \ {s} PROVE JobAt(o)'
  <2>1. present \subseteq present'
    BY Writers
  <2> QED
    BY <1>0, <2>1, Others DEF JobInv
<1>1. SUFFICES pc' \in [Shell -> Label] /\ JobAt(s)'
  BY <1>0 DEF JobInv
<1>2. ASSUME NEW j, Begin(s, j) PROVE job'[s] = j
  BY <1>2 DEF Begin
<1>3. pc \in [Shell -> Label] /\ JobAt(s)
  BY DEF JobInv
<1>4. CASE Open(s)
  BY <1>2, <1>3, <1>4 DEF Open
<1>5. CASE Close(s)
  BY <1>2, <1>3, <1>5 DEF Close
<1>6. CASE K(s)
  BY <1>2, <1>3, <1>6 DEF K
<1>7. CASE \E c \in Command : Config(s, c)
  BY <1>2, <1>3, <1>7 DEF Config
<1>8. CASE WritePrj(s)
  BY <1>3, <1>8 DEF WritePrj
<1>9. CASE WriteConf(s)
  BY <1>3, <1>9 DEF WriteConf
<1>10. CASE WriteModel(s)
  BY <1>3, <1>10 DEF WriteModel
<1>11. CASE ReadPrj(s)
  <2>1. var'[s].Myprj = myprj
    BY <1>11 DEF ReadPrj
  <2> QED
    BY <1>3, <1>11, <2>1 DEF ReadPrj
<1>12. CASE Extract(s) \/ Truncate(s) \/ Sed(s)
  <2>1. var' = var /\ (pc'[s] = "sed" => present' = present \cup {var[s].Myprj})
    BY <1>3, <1>12 DEF Extract, Truncate, Sed
  <2> QED
    BY <1>3, <1>12, <2>1 DEF Extract, Truncate, Sed
<1>13. CASE SourceModelEnv(s)
  <2>1. var'[s].Myprj = var[s].Myprj
    BY <1>13 DEF SourceModelEnv
  <2> QED
    BY <1>3, <1>13, <2>1 DEF SourceModelEnv
<1>14. CASE Sprjenv(s)
  <2>1. var'[s].Myprj = var[s].Myprj
    BY <1>14 DEF Sprjenv
  <2> QED
    BY <1>3, <1>14, <2>1 DEF Sprjenv
<1>15. CASE ReadConf(s)
  BY <1>3, <1>15 DEF ReadConf
<1>16. CASE BuildEnv(s)
  BY <1>3, <1>16 DEF BuildEnv
<1>17. CASE Check(s)
  BY <1>3, <1>17 DEF Check
<1> QED
  BY <1>4, <1>5, <1>6, <1>7, <1>8, <1>9, <1>10, <1>11, <1>12, <1>13, <1>14, <1>15, <1>16, <1>17
  DEF ShellStep

\* Who is at a job after a step of s was so before, or is s beginning it.
LEMMA SoloStep ==
  ASSUME TypeOK, JobInv, SoloInv, NEW s \in Shell, ShellStep(s)
  PROVE  SoloInv'
<1>1. SUFFICES ASSUME NEW o \in Shell, NEW t \in Shell, NEW i \in {"start", "config"}, o # t,
                      solo'[o], Doing(o, i)', Doing(t, i)'
               PROVE  FALSE
  BY DEF SoloInv
<1>2. CASE Open(s) \/ K(s) \/ \E c \in Command : Config(s, c)
  <2>1. PICK j \in {"start", "config", "k"} : Begin(s, j)
    BY <1>2 DEF Open, K, Config
  <2>2. CASE o = s
    <3>1. Doing(t, i)
      BY <1>1, <2>2, Others DEF Doing, Busy
    <3>2. j = i
      BY <1>1, <2>1, <2>2 DEF Begin, Doing, TypeOK
    <3>3. t \in Rivals(s, j)
      BY <1>1, <2>2, <3>1, <3>2 DEF Rivals
    <3> QED
      BY <1>1, <2>1, <2>2, <3>3 DEF Begin
  <2>3. CASE t = s
    <3>1. j = i
      BY <1>1, <2>1, <2>3 DEF Begin, Doing, TypeOK
    <3>2. Doing(o, i)
      BY <1>1, <2>3, Others DEF Doing, Busy
    <3>3. o \in Rivals(s, j)
      BY <1>1, <2>3, <3>1, <3>2 DEF Rivals
    <3> QED
      BY <1>1, <2>1, <2>3, <3>3 DEF Begin
  <2>4. CASE o # s /\ t # s
    BY <1>1, <2>4, Others DEF SoloInv, Busy, Doing
  <2> QED
    BY <2>2, <2>3, <2>4
<1>3. CASE Close(s)
  <2>1. ~Busy(s)'
    BY <1>3 DEF Close, Busy, JobInv
  <2>2. o # s /\ t # s
    BY <1>1, <2>1 DEF Doing
  <2> QED
    BY <1>1, <2>2, Others DEF SoloInv, Busy, Doing
<1>4. CASE \/ WritePrj(s) \/ WriteConf(s) \/ WriteModel(s) \/ ReadPrj(s) \/ Extract(s)
           \/ Truncate(s) \/ Sed(s) \/ SourceModelEnv(s) \/ Sprjenv(s) \/ ReadConf(s)
           \/ BuildEnv(s) \/ Check(s)
  <2>1. Busy(s) /\ UNCHANGED <<job, solo>>
    BY <1>4 DEF WritePrj, WriteConf, WriteModel, ReadPrj, Extract, Truncate, Sed, SourceModelEnv,
                Sprjenv, ReadConf, BuildEnv, Check, Step, Busy, history
  <2>2. ASSUME NEW r \in Shell, Busy(r)' PROVE Busy(r)
    BY <2>1, <2>2, Others DEF Busy
  <2> QED
    BY <1>1, <2>1, <2>2 DEF SoloInv, Doing
<1> QED
  BY <1>2, <1>3, <1>4 DEF ShellStep

\* Nobody writes the files while a config_prj that is alone is under way.
LEMMA FilesQuiet ==
  ASSUME TypeOK, JobInv, SoloInv, NEW s \in Shell, ShellStep(s), NEW o \in Shell \ {s},
         Alone(o), Busy(o)
  PROVE  UNCHANGED <<myprj, hiconf, himodel, settled>>
BY Writers DEF SoloInv, Alone, Doing

\* The files are those of a config_prj that is alone, as far as it has written them.
LEMMA FilesStep ==
  ASSUME TypeOK, JobInv, SoloInv, FilesInv, NEW s \in Shell, ShellStep(s)
  PROVE  FilesInv'
<1> USE DEF PrjWritten, ConfWritten, AllWritten, PrjRead, BldSet, ConfRead
<1>1. ASSUME NEW o \in Shell \ {s}, Alone(o)', pc'[o] \in PrjWritten PROVE FilesAt(o)'
  <2>1. Alone(o) /\ pc[o] \in PrjWritten
    BY <1>1, Others DEF Alone
  <2>2. UNCHANGED <<myprj, hiconf, himodel>>
    BY <2>1, FilesQuiet DEF Alone, Busy
  <2> QED
    BY <2>1, <2>2, Others DEF FilesInv, FilesAt
<1>2. SUFFICES ASSUME Alone(s)', pc'[s] \in PrjWritten PROVE FilesAt(s)'
  BY <1>1 DEF FilesInv, FilesAt
<1>3. /\ \A j : Begin(s, j) => job'[s] = j
      /\ Close(s) => job'[s] = "start"
  BY DEF Begin, Close, TypeOK
<1>4. FilesAt(s) /\ JobAt(s) /\ pc \in [Shell -> Label]
  BY DEF FilesInv, JobInv
<1>5. CASE Open(s) \/ Close(s) \/ K(s)
  BY <1>2, <1>3, <1>5 DEF Open, Close, K, Alone
<1>6. CASE \E c \in Command : Config(s, c)
  BY <1>2, <1>4, <1>6 DEF Config, Step
<1>7. CASE WritePrj(s)
  BY <1>2, <1>4, <1>7 DEF WritePrj, Step, FilesAt
<1>8. CASE WriteConf(s)
  BY <1>2, <1>4, <1>8 DEF WriteConf, Step, FilesAt, Alone
<1>9. CASE WriteModel(s)
  BY <1>2, <1>4, <1>9 DEF WriteModel, Step, FilesAt, Alone
<1>10. CASE \/ ReadPrj(s) \/ Extract(s) \/ Truncate(s) \/ Sed(s) \/ SourceModelEnv(s)
            \/ Sprjenv(s) \/ ReadConf(s) \/ BuildEnv(s) \/ Check(s)
  <2>1. /\ UNCHANGED <<myprj, hiconf, himodel, job, cmd, solo>>
        /\ pc[s] \in ExtractLabel \cup AllWritten
    BY <1>10 DEF ReadPrj, Extract, Truncate, Sed, SourceModelEnv, Sprjenv, ReadConf, BuildEnv,
                 Check, Step, files, history, ExtractLabel
  <2> QED
    BY <1>2, <1>4, <2>1 DEF FilesAt, JobAt, Alone
<1> QED
  BY <1>5, <1>6, <1>7, <1>8, <1>9, <1>10 DEF ShellStep

\* What the files say between two config_prj.
LEMMA SettledStep ==
  ASSUME TypeOK, JobInv, SoloInv, FilesInv, SettledInv, NEW s \in Shell, ShellStep(s)
  PROVE  SettledInv'
<1>1. ASSUME NEW o \in Shell, pc[o] \in WriteLabel, o # s, Doing(s, "config"), solo[s] PROVE FALSE
  BY <1>1 DEF SoloInv, JobInv, JobAt, Doing, Busy, WriteLabel, ExtractLabel, TypeOK
<1>2. \A o \in Shell \ {s} : pc'[o] = pc[o]
  BY Others
<1>3. pc \in [Shell -> Label]
  BY DEF JobInv
<1>4. CASE pc[s] \notin WriteLabel
  <2>1. UNCHANGED <<myprj, hiconf, himodel, settled>>
    BY <1>4, Writers
  <2>2. pc'[s] \notin {"write_conf", "write_model"}
    BY <1>3, <1>4 DEF ShellStep, Open, Close, K, Config, WritePrj, WriteConf, WriteModel, ReadPrj,
         Extract, Truncate, Sed, SourceModelEnv, Sprjenv, ReadConf, BuildEnv, Check, Step, WriteLabel
  <2> QED
    BY <1>2, <2>1, <2>2 DEF SettledInv
<1>5. NoCommand \notin Command
  BY CommandFacts
<1>6. CASE WritePrj(s)
  BY <1>5, <1>6 DEF WritePrj, SettledInv
<1>7. ASSUME pc[s] \in {"write_conf", "write_model"}, solo[s]
      PROVE  /\ \A o \in Shell \ {s} : pc'[o] \notin {"write_conf", "write_model"}
             /\ cmd[s] \in Command /\ myprj = cmd[s].prj
             /\ pc[s] = "write_model" => hiconf = ConfOf(cmd[s])
  <2>1. Doing(s, "config")
    BY <1>7, Writers DEF WriteLabel
  <2>2. \A o \in Shell \ {s} : pc'[o] \notin {"write_conf", "write_model"}
    BY <1>1, <1>2, <1>7, <2>1 DEF WriteLabel
  <2> QED
    BY <1>7, <2>1, <2>2
    DEF Doing, JobInv, JobAt, FilesInv, FilesAt, Alone, PrjWritten, ConfWritten
<1>8. CASE WriteConf(s)
  <2>1. pc[s] = "write_conf" /\ settled = NoCommand
    BY <1>8 DEF WriteConf, Step, SettledInv
  <2>2. CASE cmd[s].prj = "wrns" /\ solo[s]
    BY <1>3, <1>7, <1>8, <2>1, <2>2 DEF WriteConf, Step, SettledInv
  <2>3. CASE ~ (cmd[s].prj = "wrns" /\ solo[s])
    BY <1>5, <1>8, <2>1, <2>3 DEF WriteConf, SettledInv
  <2> QED
    BY <2>2, <2>3
<1>9. CASE WriteModel(s)
  <2>1. pc[s] = "write_model" /\ settled = NoCommand
    BY <1>9 DEF WriteModel, Step, SettledInv
  <2>2. CASE solo[s]
    BY <1>3, <1>7, <1>9, <2>1, <2>2 DEF WriteModel, Step, SettledInv
  <2>3. CASE ~ solo[s]
    BY <1>5, <1>9, <2>1, <2>3 DEF WriteModel, SettledInv
  <2> QED
    BY <2>2, <2>3
<1>10. CASE Close(s)
  BY <1>2, <1>3, <1>10 DEF Close, SettledInv, files
<1> QED
  BY <1>4, <1>6, <1>8, <1>9, <1>10 DEF ShellStep, Open, K, Config, ReadPrj, Extract, Truncate, Sed,
     SourceModelEnv, Sprjenv, ReadConf, BuildEnv, Check, Step, WriteLabel

\* The fields of a shell's variables after its own steps.
LEMMA OwnVar ==
  ASSUME TypeOK, JobInv, NEW s \in Shell
  PROVE  /\ ReadPrj(s) =>
              /\ var'[s].Myprj = myprj
              /\ \A f \in {"Hiconf", "socid", "bld", "defs"} : var'[s][f] = var[s][f]
         /\ SourceModelEnv(s) =>
              \A f \in {"Myprj", "Hiconf", "socid", "bld"} : var'[s][f] = var[s][f]
         /\ Sprjenv(s) =>
              /\ var'[s].socid = IF var[s].Hiconf = PC THEN var[s].socid ELSE SocidFor(s, himodel)
              /\ var'[s].bld = <<var[s].Myprj, var'[s].socid>>
              /\ \A f \in {"Myprj", "Hiconf", "defs"} : var'[s][f] = var[s][f]
         /\ ReadConf(s) =>
              /\ var'[s].Hiconf = hiconf
              /\ \A f \in {"Myprj", "socid", "bld", "defs"} : var'[s][f] = var[s][f]
         /\ BuildEnv(s) =>
              /\ \A f \in {"Myprj", "Hiconf", "bld", "defs"} : var'[s][f] = var[s][f]
              /\ IF var[s].bld \in Tree /\ pc'[s] # "exited"
                   THEN /\ hiconf # PC /\ Soc[var[s].bld[1]][hiconf] # NoSoc
                        /\ var'[s].socid = Soc[var[s].bld[1]][hiconf]
                   ELSE var'[s].socid = var[s].socid
<1>1. var \in [Shell -> VarType] /\ var[s] \in VarType
  BY DEF TypeOK, VarType
<1>2. ASSUME ReadPrj(s)
      PROVE  /\ var'[s].Myprj = myprj
             /\ \A f \in {"Hiconf", "socid", "bld", "defs"} : var'[s][f] = var[s][f]
  BY <1>1, <1>2 DEF ReadPrj, VarType
<1>3. ASSUME SourceModelEnv(s)
      PROVE  \A f \in {"Myprj", "Hiconf", "socid", "bld"} : var'[s][f] = var[s][f]
  BY <1>1, <1>3 DEF SourceModelEnv, VarType
<1>4. ASSUME Sprjenv(s)
      PROVE  /\ var'[s].socid = IF var[s].Hiconf = PC THEN var[s].socid ELSE SocidFor(s, himodel)
             /\ var'[s].bld = <<var[s].Myprj, var'[s].socid>>
             /\ \A f \in {"Myprj", "Hiconf", "defs"} : var'[s][f] = var[s][f]
  BY <1>1, <1>4 DEF Sprjenv, VarType
<1>5. ASSUME ReadConf(s)
      PROVE  /\ var'[s].Hiconf = hiconf
             /\ \A f \in {"Myprj", "socid", "bld", "defs"} : var'[s][f] = var[s][f]
  BY <1>1, <1>5 DEF ReadConf, VarType
<1>6. ASSUME BuildEnv(s)
      PROVE  /\ \A f \in {"Myprj", "Hiconf", "bld", "defs"} : var'[s][f] = var[s][f]
             /\ IF var[s].bld \in Tree /\ pc'[s] # "exited"
                  THEN /\ hiconf # PC /\ Soc[var[s].bld[1]][hiconf] # NoSoc
                       /\ var'[s].socid = Soc[var[s].bld[1]][hiconf]
                  ELSE var'[s].socid = var[s].socid
  <2>1. CASE var' = var /\ (var[s].bld \in Tree => pc'[s] = "exited")
    BY <2>1
  <2>2. CASE /\ var[s].bld \in Tree /\ hiconf # PC /\ pc'[s] # "exited"
             /\ Soc[var[s].bld[1]][hiconf] # NoSoc
             /\ var' = [var EXCEPT ![s].socid = Soc[var[s].bld[1]][hiconf]]
    BY <1>1, <2>2 DEF VarType
  <2>3. pc \in [Shell -> Label]
    BY DEF JobInv
  <2> QED
    BY <1>6, <2>1, <2>2, <2>3 DEF BuildEnv
<1> QED
  BY <1>2, <1>3, <1>4, <1>5, <1>6

\* The variables are those of a config_prj that is alone, as far as it has set them.
LEMMA VarStep ==
  ASSUME TypeOK, JobInv, FilesInv, VarInv, NEW s \in Shell, ShellStep(s)
  PROVE  VarInv'
<1> USE DEF AllWritten, PrjRead, BldSet, ConfRead
<1>1. ASSUME NEW o \in Shell \ {s} PROVE VarAt(o)'
  BY <1>1, Others DEF VarInv, VarAt, Alone
<1>2. SUFFICES ASSUME Alone(s)', pc'[s] \in PrjRead \cup {"ready"} PROVE VarAt(s)'
  BY <1>1 DEF VarInv, VarAt
<1>3. /\ \A j : Begin(s, j) => job'[s] = j
      /\ Close(s) => job'[s] = "start"
  BY DEF Begin, Close, TypeOK
<1>4. FilesAt(s) /\ VarAt(s) /\ JobAt(s) /\ pc \in [Shell -> Label]
  BY DEF FilesInv, VarInv, JobInv
<1>5. CASE Open(s) \/ Close(s) \/ K(s)
  BY <1>2, <1>3, <1>5 DEF Open, Close, K, Alone
<1>6. CASE (\E c \in Command : Config(s, c)) \/ WritePrj(s) \/ WriteConf(s) \/ WriteModel(s)
  BY <1>2, <1>4, <1>6 DEF Config, WritePrj, WriteConf, WriteModel, Step
<1>7. ASSUME UNCHANGED <<job, cmd, solo>>
      PROVE  /\ Alone(s) /\ cmd[s] \in Command
             /\ Alone(s)' /\ cmd'[s] = cmd[s]
  BY <1>2, <1>4, <1>7 DEF Alone, JobAt
<1>8. CASE ReadPrj(s)
  BY <1>4, <1>7, <1>8, OwnVar DEF ReadPrj, Step, history, Alone, FilesAt, VarAt, PrjWritten, ConfWritten
<1>9. CASE Extract(s) \/ Truncate(s) \/ Sed(s)
  BY <1>4, <1>7, <1>9 DEF Extract, Truncate, Sed, Step, history, Alone, JobAt, ExtractLabel
<1>10. CASE SourceModelEnv(s)
  BY <1>4, <1>7, <1>10, OwnVar DEF SourceModelEnv, Step, history, Alone, VarAt
<1>11. CASE Sprjenv(s)
  <2>1. Alone(s) /\ cmd' = cmd /\ pc[s] = "sprjenv" /\ pc'[s] = "source_model_env"
    BY <1>4, <1>7, <1>11 DEF Sprjenv, Step, history, Alone
  <2>2. /\ var'[s].Myprj = var[s].Myprj /\ var'[s].bld[1] = var[s].Myprj
        /\ var'[s].socid = var'[s].bld[2]
    BY <1>11, OwnVar
  <2> QED
    BY <1>4, <2>1, <2>2 DEF VarAt
<1>12. CASE ReadConf(s)
  <2>1. pc[s] = "read_conf" /\ hiconf = ConfOf(cmd[s])
    BY <1>4, <1>7, <1>12 DEF ReadConf, history, FilesAt, ConfWritten
  <2>2. pc'[s] = "check" => cmd[s].prj = "wrns"
    BY <1>4, <1>7, <1>12, <2>1, CommandFacts DEF ReadConf, history, Alone
  <2>3. cmd' = cmd /\ pc'[s] \in {"build_env", "check"} /\ Alone(s)
    BY <1>4, <1>7, <1>12 DEF ReadConf, history, Alone
  <2>4. /\ var'[s].Hiconf = hiconf /\ var'[s].Myprj = var[s].Myprj
        /\ var'[s].bld = var[s].bld /\ var'[s].socid = var[s].socid
    BY <1>12, OwnVar
  <2> QED
    BY <1>4, <2>1, <2>2, <2>3, <2>4 DEF VarAt
<1>13. CASE BuildEnv(s)
  <2>1. pc[s] = "build_env" /\ hiconf = ConfOf(cmd[s]) /\ var[s].bld[1] = cmd[s].prj
    BY <1>4, <1>7, <1>13 DEF BuildEnv, history, FilesAt, VarAt, ConfWritten
  <2>2. cmd[s].prj # "wrns" => Soc[cmd[s].prj][hiconf] = SocOf(cmd[s])
    BY <1>7, <1>13, <2>1, CommandFacts DEF BuildEnv, history, SocOf
  <2>3. pc'[s] \in {"check", "exited"}
    BY <1>4, <1>7, <1>13 DEF BuildEnv, history, Alone
  <2> QED
    BY <1>2, <1>4, <1>7, <1>13, <2>1, <2>2, <2>3, OwnVar DEF BuildEnv, history, VarAt
<1>14. CASE Check(s)
  <2>1. warned'[s] = "match" => var[s].socid = var[s].bld[2]
    BY <1>14 DEF Check, TypeOK
  <2> QED
    BY <1>4, <1>7, <1>14, <2>1 DEF Check, Step, VarAt
<1> QED
  BY <1>5, <1>6, <1>8, <1>9, <1>10, <1>11, <1>12, <1>13, <1>14 DEF ShellStep

\* The same for the second of two equal calls: sprjenv already knows the project.
LEMMA AgainStep ==
  ASSUME TypeOK, JobInv, FilesInv, VarInv, AgainInv, DefsInv, NEW s \in Shell, ShellStep(s)
  PROVE  AgainInv'
<1> USE DEF AllWritten, PrjRead, BldSet, ConfRead
<1>1. ASSUME NEW o \in Shell \ {s} PROVE AgainAt(o)'
  BY <1>1, Others DEF AgainInv, AgainAt
<1>2. SUFFICES ASSUME job'[s] = "config", again'[s] PROVE AgainAt(s)'
  BY <1>1 DEF AgainInv, AgainAt
<1>3. /\ \A j : Begin(s, j) => job'[s] = j
      /\ Close(s) => job'[s] = "start"
  BY DEF Begin, Close, TypeOK
<1>4. FilesAt(s) /\ VarAt(s) /\ AgainAt(s) /\ JobAt(s) /\ pc \in [Shell -> Label]
  BY DEF FilesInv, VarInv, AgainInv, JobInv
<1>5. CASE Open(s) \/ Close(s) \/ K(s)
  BY <1>2, <1>3, <1>5 DEF Open, Close, K
<1>6. ASSUME NEW c \in Command, Config(s, c) PROVE AgainAt(s)'
  <2>1. /\ cmd[s] = c /\ solo[s] /\ c.prj # "wrns" /\ var[s].defs[c.model] = c.prj
        /\ pc[s] = "ready"
    BY <1>2, <1>6 DEF Config, Step, TypeOK
  <2>2. Alone(s)
    BY <1>4, <2>1, CommandFacts DEF Alone, JobAt
  <2>3. var[s].Hiconf # PC
    BY <1>4, <2>1, <2>2, CommandFacts DEF VarAt
  <2>4. pc'[s] = "write_prj" /\ cmd'[s] = c /\ var' = var
    BY <1>4, <1>6 DEF Config, Step, TypeOK
  <2>5. SocOf(c) # NoSoc
    <3>1. c.model \in Model /\ c.prj # Unset
      BY <2>1, CommandFacts, ProjectAssumption
    <3> QED
      BY <2>1, <3>1 DEF DefsInv, SocOf
  <2> QED
    BY <2>1, <2>3, <2>4, <2>5 DEF AgainAt
<1>7. ASSUME UNCHANGED <<job, cmd, solo, again>>
      PROVE  /\ job[s] = "config" /\ again[s] /\ cmd[s] \in Command
             /\ cmd'[s] = cmd[s] /\ cmd[s].prj # "wrns" /\ SocOf(cmd[s]) # NoSoc
             /\ SocOf(cmd'[s]) # NoSoc
             /\ solo'[s] => Alone(s)
  BY <1>2, <1>4, <1>7 DEF Alone, JobAt, AgainAt
<1>8. CASE WritePrj(s) \/ WriteConf(s) \/ WriteModel(s)
  BY <1>4, <1>7, <1>8 DEF WritePrj, WriteConf, WriteModel, Step, AgainAt, WriteLabel
<1>9. CASE ReadPrj(s)
  BY <1>4, <1>7, <1>9, OwnVar DEF ReadPrj, Step, history, AgainAt, WriteLabel
<1>10. CASE Extract(s) \/ Truncate(s) \/ Sed(s)
  BY <1>4, <1>7, <1>10 DEF Extract, Truncate, Sed, Step, history, JobAt, ExtractLabel
<1>11. CASE SourceModelEnv(s)
  BY <1>4, <1>7, <1>11, OwnVar DEF SourceModelEnv, Step, history, AgainAt, WriteLabel
<1>12. CASE Sprjenv(s)
  <2>1. /\ pc[s] = "sprjenv" /\ pc'[s] = "source_model_env"
        /\ UNCHANGED <<job, cmd, solo, again>>
    BY <1>2, <1>4, <1>12 DEF Sprjenv, Step, history
  <2>2. var[s].Hiconf # PC /\ var[s].defs[cmd[s].model] = cmd[s].prj
    BY <1>4, <1>7, <2>1 DEF AgainAt
  <2>3. ASSUME solo'[s]
        PROVE  /\ himodel = cmd[s].model /\ var[s].Myprj = cmd[s].prj
               /\ SocidFor(s, himodel) = SocOf(cmd[s])
    <3>1. himodel = cmd[s].model /\ var[s].Myprj = cmd[s].prj
      BY <1>4, <1>7, <1>12, <2>1, <2>3 DEF Sprjenv, history, FilesAt, VarAt
    <3>2. cmd[s].prj # Unset
      BY <1>7, <1>12, CommandFacts, ProjectAssumption DEF Sprjenv, history
    <3> QED
      BY <2>2, <3>1, <3>2 DEF SocidFor, SocOf
  <2>4. solo'[s] => var'[s].bld = <<cmd[s].prj, SocOf(cmd[s])>> /\ var'[s].socid = SocOf(cmd[s])
    BY <1>12, <2>2, <2>3, OwnVar
  <2> QED
    BY <1>7, <2>1, <2>4 DEF AgainAt, WriteLabel
<1>13. CASE ReadConf(s)
  BY <1>4, <1>7, <1>13, OwnVar DEF ReadConf, history, AgainAt, FilesAt, WriteLabel
<1>14. CASE BuildEnv(s)
  <2>1. pc[s] = "build_env"
    BY <1>14 DEF BuildEnv
  <2>2. pc'[s] \in {"check", "exited"}
    BY <1>4, <1>7, <1>14 DEF BuildEnv, history
  <2>3. ASSUME solo'[s]
        PROVE  /\ var[s].bld = <<cmd[s].prj, SocOf(cmd[s])>> /\ var[s].socid = SocOf(cmd[s])
               /\ hiconf # PC => Soc[var[s].bld[1]][hiconf] = SocOf(cmd[s])
    <3>1. var[s].bld = <<cmd[s].prj, SocOf(cmd[s])>> /\ var[s].socid = SocOf(cmd[s])
      BY <1>4, <1>7, <1>14, <2>1, <2>3 DEF BuildEnv, history, AgainAt
    <3>2. hiconf = ModelId[cmd[s].model]
      BY <1>4, <1>7, <1>14, <2>1, <2>3, CommandFacts DEF BuildEnv, history, FilesAt, ConfWritten
    <3> QED
      BY <3>1, <3>2 DEF SocOf
  <2>4. solo'[s] => var'[s].socid = SocOf(cmd[s]) /\ var'[s].bld = <<cmd[s].prj, SocOf(cmd[s])>>
    BY <1>14, <2>3, OwnVar
  <2> QED
    BY <1>7, <1>14, <2>2, <2>4 DEF BuildEnv, history, AgainAt, WriteLabel
<1>15. CASE Check(s)
  <2>1. UNCHANGED <<job, cmd, solo, again, var>> /\ pc[s] = "check" /\ pc'[s] = "ready"
    BY <1>4, <1>15 DEF Check, Step
  <2>2. ASSUME solo[s]
        PROVE  /\ var[s].bld = <<cmd[s].prj, SocOf(cmd[s])>> /\ var[s].socid = SocOf(cmd[s])
               /\ SocOf(cmd[s]) # NoSoc
    BY <1>4, <1>7, <2>1, <2>2 DEF AgainAt
  <2>3. solo[s] => warned'[s] = "match"
    BY <1>15, <2>2 DEF Check, TypeOK
  <2> QED
    BY <1>7, <2>1, <2>2, <2>3 DEF AgainAt, WriteLabel
<1> QED
  BY <1>5, <1>6, <1>8, <1>9, <1>10, <1>11, <1>12, <1>13, <1>14, <1>15 DEF ShellStep

\* A new shell sources its project's functions, all of them if it is alone and
\* the file is whole.
LEMMA NewStep ==
  ASSUME TypeOK, JobInv, SoloInv, NewInv, NEW s \in Shell, ShellStep(s)
  PROVE  NewInv'
<1>1. ASSUME NEW o \in Shell \ {s}, job[o] = "start" PROVE NewAt(o)'
  <2>1. NewAt(o) /\ pc'[o] = pc[o] /\ var'[o] = var[o] /\ job'[o] = job[o]
    BY <1>1, Others DEF NewInv
  <2>2. ASSUME pc[o] = "sprjenv", solo'[o] PROVE solo[o] /\ extracted' \subseteq extracted
    <3>1. solo[o] /\ Doing(o, "start")
      BY <1>1, <2>2, Others DEF Doing, Busy
    <3>2. ~Doing(s, "start")
      BY <1>1, <3>1 DEF SoloInv
    <3> QED
      BY <3>1, <3>2, Writers
  <2> QED
    BY <1>1, <2>1, <2>2 DEF NewAt
<1>2. ASSUME NEW o \in Shell \ {s}, job[o] # "start" PROVE NewAt(o)'
  BY <1>2, Others DEF NewAt
<1>3. SUFFICES ASSUME job'[s] = "start" PROVE NewAt(s)'
  BY <1>1, <1>2 DEF NewInv, NewAt
<1>4. ASSUME NEW j, Begin(s, j) PROVE job'[s] = j
  BY <1>4 DEF Begin, TypeOK
<1>5. NewAt(s) /\ JobAt(s) /\ pc \in [Shell -> Label]
  BY DEF NewInv, JobInv
<1>6. CASE Open(s)
  <2>1. pc[s] = "closed" /\ pc'[s] = "read_prj" /\ var' = var
    BY <1>5, <1>6 DEF Open, Step
  <2>2. job[s] = "start"
    BY <1>5, <2>1 DEF JobAt, TypeOK
  <2> QED
    BY <1>5, <2>1, <2>2 DEF NewAt
<1>7. CASE Close(s)
  <2>1. pc'[s] = "closed" /\ var'[s] = NewShell
    BY <1>5, <1>7 DEF Close, Step, TypeOK
  <2> QED
    BY <2>1 DEF NewAt, NewShell
<1>8. CASE K(s) \/ (\E c \in Command : Config(s, c))
  BY <1>3, <1>4, <1>8 DEF K, Config
<1>9. ASSUME UNCHANGED job
      PROVE  /\ job[s] = "start"
             /\ pc[s] \in {"closed", "read_prj", "source_model_env", "sprjenv", "ready"}
                        \cup ExtractLabel
  BY <1>3, <1>5, <1>9 DEF JobAt
<1>10. CASE \/ WritePrj(s) \/ WriteConf(s) \/ WriteModel(s)
            \/ ReadConf(s) \/ BuildEnv(s) \/ Check(s)
  BY <1>9, <1>10 DEF WritePrj, WriteConf, WriteModel, ReadConf, BuildEnv, Check, Step, ExtractLabel
<1>11. CASE ReadPrj(s)
  BY <1>5, <1>9, <1>11, OwnVar DEF ReadPrj, Step, NewAt
<1>12. CASE Extract(s) \/ Truncate(s) \/ Sed(s)
  BY <1>5, <1>9, <1>12 DEF Extract, Truncate, Sed, Step, NewAt
<1>13. CASE SourceModelEnv(s)
  <2>1. /\ job[s] = "start" /\ pc[s] = "source_model_env" /\ pc'[s] = "sprjenv"
        /\ extracted' = extracted
    BY <1>5, <1>9, <1>13 DEF SourceModelEnv, Step, files, functions
  <2>2. /\ var'[s].Myprj = var[s].Myprj /\ var'[s].Hiconf = var[s].Hiconf
        /\ var'[s].socid = var[s].socid
    BY <1>13, OwnVar
  <2>3. /\ var[s].Hiconf = Unset /\ var[s].socid = NoSoc
        /\ \A m \in Model : var[s].defs[m] = Unset
    BY <1>5, <2>1 DEF NewAt
  <2>4. ASSUME NEW m \in Model, var[s].Myprj \in extracted
        PROVE  var'[s].defs[m] =
                 IF Soc[var[s].Myprj][ModelId[m]] # NoSoc THEN var[s].Myprj ELSE Unset
    <3>1. var \in [Shell -> VarType]
      BY DEF TypeOK, VarType
    <3>2. var' = [var EXCEPT ![s].defs = [n \in Model |->
            IF n \in Model /\ Soc[var[s].Myprj][ModelId[n]] # NoSoc THEN var[s].Myprj ELSE @[n]]]
      BY <1>13, <2>4 DEF SourceModelEnv
    <3> QED
      BY <2>3, <3>1, <3>2 DEF VarType
  <2> QED
    BY <2>1, <2>2, <2>3, <2>4 DEF NewAt
<1>14. CASE Sprjenv(s)
  <2>1. pc'[s] = "ready" /\ job[s] = "start"
    BY <1>5, <1>9, <1>14 DEF Sprjenv, Step
  <2>2. var'[s].Hiconf = var[s].Hiconf
    BY <1>14, OwnVar
  <2> QED
    BY <1>5, <2>1, <2>2 DEF NewAt
<1> QED
  BY <1>6, <1>7, <1>8, <1>10, <1>11, <1>12, <1>13, <1>14 DEF ShellStep

\* A shell gets functions from files only, and a file has those of its project.
LEMMA DefsStep ==
  ASSUME TypeOK, JobInv, DefsInv, NEW s \in Shell, ShellStep(s)
  PROVE  DefsInv'
<1>1. SUFFICES ASSUME NEW m \in Model, var'[s].defs[m] # Unset
               PROVE  Soc[var'[s].defs[m]][ModelId[m]] # NoSoc
  BY Others DEF DefsInv
<1>2. var[s].defs[m] # Unset => Soc[var[s].defs[m]][ModelId[m]] # NoSoc
  BY DEF DefsInv
<1>3. CASE Close(s)
  BY <1>1, <1>3 DEF Close, NewShell, TypeOK
<1>4. CASE SourceModelEnv(s)
  <2>1. var \in [Shell -> VarType]
    BY DEF TypeOK, VarType
  <2>2. PICK S : var' = [var EXCEPT ![s].defs = [n \in Model |->
          IF n \in S /\ Soc[var[s].Myprj][ModelId[n]] # NoSoc THEN var[s].Myprj ELSE @[n]]]
    BY <1>4 DEF SourceModelEnv
  <2>3. var'[s].defs[m] = IF m \in S /\ Soc[var[s].Myprj][ModelId[m]] # NoSoc
                            THEN var[s].Myprj ELSE var[s].defs[m]
    BY <2>1, <2>2 DEF VarType
  <2> QED
    BY <1>1, <1>2, <2>3
<1>5. CASE ReadPrj(s) \/ Sprjenv(s) \/ ReadConf(s) \/ BuildEnv(s)
  BY <1>1, <1>2, <1>5, OwnVar
<1>6. CASE var' = var
  BY <1>1, <1>2, <1>6
<1> QED
  BY <1>3, <1>4, <1>5, <1>6 DEF ShellStep, Open, K, Config, WritePrj, WriteConf, WriteModel,
     Extract, Truncate, Sed, Check

\* The three facts an inductive invariant stands on.
LEMMA InitInv == Init => IInv
<1> SUFFICES ASSUME Init PROVE IInv
  OBVIOUS
<1> USE DEF Init
<1>1. /\ settled \in Command /\ settled.prj \in Project
      /\ hiconf \in {ModelId[m] : m \in Model} \cup {PC}
      /\ himodel \in Model
      /\ settled.prj # "wrns" => himodel = settled.model
  BY CommandFacts
<1>2. TypeOK
  <2>1. var \in [Shell -> VarType]
    BY DEF NewShell, VarType
  <2> QED
    BY <1>1, <2>1, BoundAssumption, ProjectAssumption DEF TypeOK, VarType
<1>3. JobInv
  BY DEF JobInv, JobAt, Label, ExtractLabel
<1>4. SoloInv /\ FilesInv /\ VarInv /\ AgainInv
  BY DEF SoloInv, Doing, Busy, FilesInv, FilesAt, VarInv, VarAt, Alone, AgainInv, AgainAt
<1>5. SettledInv
  BY <1>1 DEF SettledInv
<1>6. NewInv /\ DefsInv
  BY DEF NewInv, NewAt, NewShell, DefsInv
<1> QED
  BY <1>2, <1>3, <1>4, <1>5, <1>6 DEF IInv

LEMMA Stutter == IInv /\ UNCHANGED vars => IInv'
<1> SUFFICES ASSUME IInv, UNCHANGED vars PROVE IInv'
  OBVIOUS
<1> USE DEF vars, files, functions, history
<1>1. TypeOK'
  BY DEF IInv, TypeOK
<1>2. JobInv' /\ SoloInv' /\ SettledInv'
  BY DEF IInv, JobInv, JobAt, SoloInv, SettledInv, Busy, Doing
<1>3. FilesInv' /\ VarInv' /\ AgainInv'
  BY DEF IInv, FilesInv, FilesAt, VarInv, VarAt, Alone, AgainInv, AgainAt
<1>4. NewInv' /\ DefsInv'
  BY DEF IInv, NewInv, NewAt, DefsInv
<1> QED
  BY <1>1, <1>2, <1>3, <1>4 DEF IInv

LEMMA StepInv == IInv /\ [Next]_vars => IInv'
<1>1. ASSUME IInv, NEW s \in Shell, ShellStep(s) PROVE IInv'
  <2>1. TypeOK' /\ JobInv'
    BY <1>1, TypeStep, JobStep DEF IInv
  <2>2. SoloInv' /\ FilesInv' /\ SettledInv'
    BY <1>1, SoloStep, FilesStep, SettledStep DEF IInv
  <2>3. VarInv' /\ AgainInv' /\ NewInv' /\ DefsInv'
    BY <1>1, VarStep, AgainStep, NewStep, DefsStep DEF IInv
  <2> QED
    BY <2>1, <2>2, <2>3 DEF IInv
<1>2. Next => \E s \in Shell : ShellStep(s)
  BY DEF Next, ShellStep
<1> QED
  BY <1>1, <1>2, Stutter

LEMMA InvAlways == Spec => []IInv
BY InitInv, StepInv, PTL DEF Spec

-----------------------------------------------------------------------------
\* Every variable keeps its type.
THEOREM TypeCorrect == Spec => []TypeOK
<1>1. IInv => TypeOK
  BY DEF IInv
<1> QED
  BY <1>1, InvAlways, PTL

\* config_prj, lines 224 to 231: once one that no other overlaps has written its
\* files, all three say what it was called with, until the next one begins to
\* write; while one is writing, settled claims nothing.
THEOREM FilesSettled == Spec => []SettledInv
<1>1. IInv => SettledInv
  BY DEF IInv
<1> QED
  BY <1>1, InvAlways, PTL

\* Line 247: a config_prj that no other overlaps and that does not complain has set
\* the project, the build directory and the letter of its arguments, if the build
\* tree is there.
THEOREM SilenceMeansRightAlways == Spec => []SilenceMeansRight
<1>1. IInv => SilenceMeansRight
  <2> SUFFICES ASSUME IInv, NEW s \in Shell, pc[s] = "ready", job[s] = "config", solo[s],
                      warned[s] = "match", cmd[s].prj # "wrns", var[s].bld \in Tree
               PROVE  Agrees(s, cmd[s])
    BY DEF SilenceMeansRight
  <2>1. /\ var[s].Myprj = cmd[s].prj /\ var[s].bld[1] = cmd[s].prj
        /\ var[s].socid = SocOf(cmd[s]) /\ var[s].bld[2] = SocOf(cmd[s])
    BY DEF IInv, VarInv, VarAt, Alone
  <2>2. var[s].bld = <<var[s].bld[1], var[s].bld[2]>>
    BY TreeAssumption
  <2> QED
    BY <2>1, <2>2 DEF Agrees
<1> QED
  BY <1>1, InvAlways, PTL

\* config_prj called twice with the same arguments, not overlapped: the second call
\* does not complain and is right, if the first could source the functions.
THEOREM SecondTimeRightAlways == Spec => []SecondTimeRight
<1>1. IInv => SecondTimeRight
  BY DEF IInv, SecondTimeRight, VarInv, VarAt, Alone, AgainInv, AgainAt, Agrees, BldSet
<1> QED
  BY <1>1, InvAlways, PTL

\* Lines 301 to 327: a new shell that no other comes up with, and that finds or
\* makes its project's file of functions whole, comes up for the command the files
\* stem from, whatever the shells before it went through.
THEOREM NewShellRightAlways == Spec => NewShellRight
<1>1. ASSUME IInv, NEW s \in Shell, Sprjenv(s), job[s] = "start", solo[s],
             var[s].Myprj \in extracted, settled \in Command,
             settled.prj # "wrns", var[s].Myprj = settled.prj
      PROVE  Agrees(s, settled)'
  <2>1. /\ himodel = settled.model /\ himodel \in Model
        /\ settled.prj # Unset /\ settled' = settled
    BY <1>1, CommandFacts, ProjectAssumption DEF IInv, SettledInv, Sprjenv, history
  <2>2. /\ var[s].Hiconf # PC /\ var[s].socid = NoSoc
        /\ var[s].defs[himodel] = IF SocOf(settled) # NoSoc THEN settled.prj ELSE Unset
    BY <1>1, <2>1 DEF IInv, NewInv, NewAt, Sprjenv, Step, SocOf, Unset, PC
  <2>3. SocidFor(s, himodel) = SocOf(settled)
    BY <2>1, <2>2 DEF SocidFor, SocOf
  <2> QED
    BY <1>1, <2>1, <2>2, <2>3, OwnVar DEF IInv, Agrees, SocOf
<1>2. IInv => [\A s \in Shell :
                 job[s] = "start" /\ solo[s] /\ var[s].Myprj \in extracted
                   /\ settled \in Command /\ settled.prj # "wrns"
                   /\ var[s].Myprj = settled.prj /\ Sprjenv(s)
                   => Agrees(s, settled)']_vars
  BY <1>1
<1> QED
  BY <1>2, InvAlways, PTL DEF NewShellRight

\* Lines 256 to 260: a config_prj of the trunk that no other overlaps links
\* external_library to the tree of the model asked for, whether or not the check
\* before it complains; where its build directory is missing, it leaves the link as
\* it is or points it to a tree that is not there, and to no other model's.
THEOREM LinkRightAlways == Spec => LinkRight
<1>1. ASSUME IInv, NEW s \in Shell, Check(s), solo[s], cmd[s].prj = "trunk"
      PROVE  \/ link' = SocOf(cmd[s])
             \/ var[s].bld \notin Tree /\ (link' = link \/ <<"trunk", link'>> \notin Tree)
  <2>1. pc[s] = "check" /\ job[s] = "config"
    BY <1>1 DEF Check, Step, IInv, JobInv, JobAt, ExtractLabel, TypeOK
  <2>2. VarAt(s) /\ Alone(s)
    BY <1>1, <2>1 DEF IInv, VarInv, Alone
  <2>3. var[s].Myprj = "trunk" /\ var[s].bld[1] = "trunk"
    BY <1>1, <2>1, <2>2 DEF VarAt, PrjRead, BldSet, ConfRead
  <2>4. link' = IF var[s].socid # NoSoc THEN var[s].socid ELSE link
    BY <1>1, <2>3 DEF Check
  <2>5. CASE var[s].bld \in Tree
    BY <1>1, <2>1, <2>2, <2>4, <2>5 DEF VarAt
  <2>6. CASE var[s].bld \notin Tree
    <3>1. var[s].socid = var[s].bld[2]
      BY <2>1, <2>2, <2>6 DEF VarAt, BldSet, ConfRead
    <3>2. var[s].bld = <<"trunk", var[s].socid>>
      BY <1>1, <2>3, <3>1 DEF IInv, TypeOK
    <3> QED
      BY <2>4, <2>6, <3>2
  <2> QED
    BY <2>5, <2>6
<1>2. IInv => [\A s \in Shell :
                 solo[s] /\ cmd[s].prj = "trunk" /\ Check(s)
                   => \/ link' = SocOf(cmd[s])
                      \/ var[s].bld \notin Tree /\ (link' = link \/ <<"trunk", link'>> \notin Tree)]_vars
  BY <1>1
<1> QED
  BY <1>2, InvAlways, PTL DEF LinkRight
=============================================================================
