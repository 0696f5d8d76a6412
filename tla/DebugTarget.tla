----------------------------- MODULE DebugTarget -----------------------------
(***************************************************************************)
(* What the hart, the debug ROM and the debug module promise a debugger:   *)
(* one hart that runs its program or is halted, and that, halted, does one *)
(* abstract command at a time.  There is no ROM, no flag and no polling    *)
(* here, and nothing is borrowed: a command moves its register in one      *)
(* step, then the program buffer runs if the command says so, then the end *)
(* is reported, and no other part of the hart changes.                     *)
(***************************************************************************)
EXTENDS Integers

CONSTANTS
    ProgramInst,    \* the instructions of the program
    BufferInst,     \* the instructions that may be in the program buffer
    Command,        \* the abstract commands the debugger issues
    NoCommand,      \* no command is in progress
    Value,          \* the words of the data register
    AtReset         \* the hart as a reset leaves it

VARIABLES
    mode,           \* where the hart is between its program and the debugger
    hart,           \* the program's pc, prv, s0 and s1, and dcsr's cause and step
    due,            \* the next instruction of the program is the only one
    request,        \* a halt is requested
    asked,          \* a resume has been asked for and not acknowledged
    job, command,   \* how far which command is
    data, error     \* the data register, and cmderr

control == <<mode, due, request, asked>>
work    == <<job, command, data, error>>
vars    == <<control, hart, work>>

Mode == {"running", "stopping", "halted", "leaving"}
Job  == {"none", "accepted", "executing", "faulted", "ended", "reported"}

NONE       == 0
BUSY       == 1
NOTSUP     == 2
EXCEPTION  == 3
HALTRESUME == 4

SWBP     == 1
DEBUGINT == 3
STEP     == 4

-----------------------------------------------------------------------------
(* The registers a command can name, as words.                             *)

General  == {"s0", "s1"}
Register == General \cup {"dcsr", "dpc", "dscratch0"}

\* dscratch0 is where a halted program's s0 is kept.
Word(regno) ==
    CASE regno \in General    -> hart[regno]
      [] regno = "dpc"        -> hart.pc
      [] regno = "dcsr"       -> hart.cause * 64 + (IF hart.step THEN 4 ELSE 0) + hart.prv
      [] regno = "dscratch0"  -> hart.s0

Installed(regno, word) ==
    CASE regno \in General    -> [hart EXCEPT ![regno] = word]
      [] regno = "dpc"        -> [hart EXCEPT !.pc = word]
      [] regno = "dcsr"       -> [hart EXCEPT !.cause = (word \div 64) % 8,
                                              !.step = (word \div 4) % 2 = 1, !.prv = word % 4]
      [] regno = "dscratch0"  -> [hart EXCEPT !.s0 = word]

Supported(cmd) ==
    cmd.access_register /\ cmd.aarsize32 /\ (cmd.transfer => cmd.regno \in Register)

-----------------------------------------------------------------------------
(* The hart.                                                               *)

\* The hart after an instruction of the program.
After(inst) ==
    CASE inst.op = "alu"    -> [hart EXCEPT !.pc = @ + 4]
      [] inst.op = "set"    -> [hart EXCEPT !.pc = @ + 4, ![inst.reg] = inst.val]
      [] inst.op = "jump"   -> [hart EXCEPT !.pc = inst.to]
      [] inst.op = "ebreak" -> hart

\* A breakpoint stops the hart, and so does the one instruction that was due.
Execute(inst) ==
    LET cause == IF inst.op = "ebreak" THEN SWBP ELSE STEP
    IN  /\ mode = "running" /\ ~request
        /\ due' = FALSE
        /\ IF inst.op = "ebreak" \/ due
             THEN mode' = "stopping" /\ hart' = [After(inst) EXCEPT !.cause = cause]
             ELSE mode' = mode /\ hart' = After(inst)
        /\ UNCHANGED <<request, asked, work>>

\* A requested halt comes before the instruction that is due.
Halt ==
    /\ mode = "running" /\ request
    /\ mode' = "stopping" /\ due' = FALSE
    /\ hart' = [hart EXCEPT !.cause = DEBUGINT]
    /\ UNCHANGED <<request, asked, work>>

ReportHalted == mode = "stopping" /\ mode' = "halted" /\ UNCHANGED <<due, request, asked, hart, work>>

AcknowledgeResume ==
    /\ mode = "halted" /\ asked /\ job = "none"
    /\ mode' = "leaving" /\ asked' = FALSE
    /\ UNCHANGED <<due, request, hart, work>>

Leave ==
    /\ mode = "leaving"
    /\ mode' = "running" /\ due' = hart.step
    /\ UNCHANGED <<request, asked, hart, work>>

-----------------------------------------------------------------------------
(* The command in progress.                                                *)

\* The word is moved, between the data register and the register.
Move ==
    /\ job = "accepted"
    /\ job' = IF command.postexec THEN "executing" ELSE "ended"
    /\ IF command.transfer
         THEN IF command.write
                THEN hart' = Installed(command.regno, data) /\ data' = data
                ELSE hart' = hart /\ data' = Word(command.regno)
         ELSE UNCHANGED <<hart, data>>
    /\ UNCHANGED <<control, command, error>>

\* An instruction of the program buffer changes what it names.
RunBuffer(inst) ==
    /\ job = "executing"
    /\ job' = CASE inst.op = "ebreak" -> "ended"
                [] inst.op = "fault"  -> "faulted"
                [] OTHER              -> "executing"
    /\ hart' = CASE inst.op = "set" -> [hart EXCEPT ![inst.reg] = inst.val]
                 [] inst.op = "csr" /\ inst.csr = "dpc" -> [hart EXCEPT !.pc = inst.val]
                 [] inst.op = "csr" /\ inst.csr = "dcsr" ->
                      [hart EXCEPT !.cause = inst.val.cause, !.step = inst.val.step,
                                   !.prv = inst.val.prv]
                 [] OTHER -> hart
    /\ UNCHANGED <<control, command, data, error>>

ReportException ==
    /\ job = "faulted"
    /\ job' = "ended"
    /\ error' = IF error = NONE THEN EXCEPTION ELSE error
    /\ UNCHANGED <<control, hart, command, data>>

ReportEnd ==
    job = "ended" /\ job' = "reported" /\ UNCHANGED <<control, hart, command, data, error>>

Complete ==
    /\ job = "reported"
    /\ job' = "none" /\ command' = NoCommand
    /\ UNCHANGED <<control, hart, data, error>>

-----------------------------------------------------------------------------
(* The debugger.                                                           *)

\* It requests a halt or withdraws the request; between commands it may clear
\* the error.
Configure(on) ==
    /\ request' = on
    /\ \/ error' = error
       \/ job = "none" /\ error' = NONE
    /\ UNCHANGED <<mode, due, asked, hart, job, command, data>>

AskResume ==
    /\ mode = "halted" /\ job = "none" /\ ~asked
    /\ asked' = TRUE /\ request' = FALSE
    /\ UNCHANGED <<mode, due, hart, work>>

\* A hart that was not running halts again, and one reported halted still is.
Reset ==
    /\ job = "none" /\ ~asked
    /\ hart' = IF mode = "halted" THEN [AtReset EXCEPT !.cause = DEBUGINT] ELSE AtReset
    /\ mode' = IF mode = "halted" THEN mode ELSE "running"
    /\ request' = (mode # "running")
    /\ due' = FALSE
    /\ UNCHANGED <<asked, work>>

\* An access that finds a command in progress changes nothing but the error.
Intrude ==
    /\ job # "none"
    /\ error = NONE /\ error' = BUSY
    /\ UNCHANGED <<control, hart, job, command, data>>

\* One that does not may change the data register, and may start a command or
\* be refused one.
Use ==
    /\ job = "none" /\ ~asked
    /\ data' \in Value
    /\ \/ error' = error
       \/ error = NONE /\ error' = NOTSUP
       \/ error = NONE /\ error' = HALTRESUME /\ mode # "halted"
    /\ UNCHANGED <<control, hart, job, command>>

Start(cmd) ==
    /\ job = "none" /\ mode = "halted" /\ ~asked /\ error = NONE
    /\ Supported(cmd)
    /\ job' = "accepted" /\ command' = cmd
    /\ data' \in Value
    /\ UNCHANGED <<control, hart, error>>

-----------------------------------------------------------------------------
Init ==
    /\ mode = "running" /\ due = FALSE /\ request = FALSE /\ asked = FALSE
    /\ hart = AtReset
    /\ job = "none" /\ command = NoCommand /\ data = 0 /\ error = NONE

Next ==
    \/ \E inst \in ProgramInst : Execute(inst)
    \/ Halt \/ ReportHalted \/ AcknowledgeResume \/ Leave
    \/ Move \/ (\E inst \in BufferInst : RunBuffer(inst)) \/ ReportException \/ ReportEnd \/ Complete
    \/ \E on \in BOOLEAN : Configure(on)
    \/ AskResume \/ Reset \/ Intrude \/ Use
    \/ \E cmd \in Command : Start(cmd)

Spec == Init /\ [][Next]_vars
=============================================================================
