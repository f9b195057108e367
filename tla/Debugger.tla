------------------------------ MODULE Debugger ------------------------------
(***************************************************************************)
(* mdb's DebugSimulator (debug_simulator.cpp) in interactive mode: the     *)
(* loop of simulate around Simulator's step, the breakpoint map with its   *)
(* system breakpoints (ID 0), and the commands that change either.         *)
(*                                                                         *)
(* Command lines are chosen freely by the user; that they come from the    *)
(* stream the program reads is not modelled.  An address a user names is   *)
(* any of BreakAddrs.                                                      *)
(***************************************************************************)
EXTENDS Simulator, Functions, FiniteSetsExt

CONSTANTS
  BreakAddrs,   \* the addresses a break command may name
  MaxBreaks     \* bound: the breakpoints a behaviour sets

ASSUME BreakAssumption == BreakAddrs \subseteq Word /\ MaxBreaks \in Nat

VARIABLES
  breakpoints,    \* the map from addresses to IDs
  nextBreakpoint, \* the ID of the next user breakpoint
  isRunning,      \* the program has not ended
  ctl,            \* where simulate is: "top" (of the loop), "prompt" (in the
                  \* command loop), "go" (past it), "closed" (returned)
  cmd,            \* history: the last command that resumed the program
  target,         \* history: the address that command runs to
  ran,            \* history: a step was taken since that command
  offender,       \* history: the address of the step that ended the program
  wanted          \* history: where the user has set and not deleted one

history == <<cmd, target, ran, offender, wanted>>
debug   == <<breakpoints, nextBreakpoint, isRunning, ctl, history>>
dvars   == <<vars, debug>>

NoAddr == AddrSpace                  \* no target

With(bps, a, id) == [x \in DOMAIN bps \union {a} |-> IF x = a THEN id ELSE bps[x]]
Without(bps, a)  == Restrict(bps, DOMAIN bps \ {a})

-----------------------------------------------------------------------------
(* The loop of simulate. *)

(* The history of the last command: at the prompt there is none. *)
Resumed(c, a) == cmd' = c /\ target' = a /\ ran' = FALSE

(* interactiveStep up to its command loop.  A system breakpoint is erased  *)
(* when execution is at one: the one of the lowest address.                *)
SystemAddrs == {a \in DOMAIN breakpoints : breakpoints[a] = 0}

(* Faulty variants of the definitions below (and further down) are named   *)
(* for their fault; the properties are checked to fail on them.            *)
AtAnySystem == SystemAddrs # {}

AtSystem    == SystemAddrs \intersect {pc, 0} # {}
GetCommand  == pc \in DOMAIN breakpoints \/ 0 \in SystemAddrs

InteractiveStep ==
  /\ ctl = "top" /\ outcome = "running"
  /\ breakpoints' = IF AtSystem THEN Without(breakpoints, Min(SystemAddrs))
                    ELSE breakpoints
  /\ IF GetCommand THEN ctl' = "prompt" /\ Resumed("none", NoAddr)
                   ELSE ctl' = "go" /\ UNCHANGED <<cmd, target, ran>>
  /\ UNCHANGED <<vars, nextBreakpoint, isRunning, offender, wanted>>

Go ==
  /\ ctl = "go" /\ isRunning
  /\ Step
  /\ ctl' = "top"
  /\ ran' = TRUE
  /\ offender' = IF outcome' = "running" THEN NoAddr ELSE pc
  /\ UNCHANGED <<breakpoints, nextBreakpoint, isRunning, cmd, target, wanted>>

NotRunningNoBreakpoint ==
  /\ ctl = "go" /\ ~isRunning
  /\ ctl' = "top"
  /\ UNCHANGED <<vars, breakpoints, nextBreakpoint, isRunning, history>>

NotRunning ==           \* "There is no program running"
  /\ ctl = "go" /\ ~isRunning
  /\ breakpoints' = With(breakpoints, pc, 0)
  /\ ctl' = "top"
  /\ UNCHANGED <<vars, nextBreakpoint, isRunning, history>>

(* The handlers for MasmRuntimeError and ExecExit leave pc at a. *)
CatchAt(a) ==
  /\ ctl = "top" /\ outcome \in {"exit", "runtimeError"}
  /\ outcome' = "running"
  /\ isRunning' = FALSE
  /\ pc' = a
  /\ UNCHANGED <<reg, cp0, dev, typed, latched, loaded, stored, clobbered,
                 resume, detoured, breakpoints, nextBreakpoint, ctl, history>>

CatchBelowZero        == CatchAt(pc - 4)
CatchWithoutDecrement == CatchAt(pc)
Catch                 == CatchAt((pc - 4) % AddrSpace)

Escape ==               \* nothing catches an ExecExcept: simulate is left
  /\ ctl = "top" /\ outcome = "execExcept"
  /\ ctl' = "closed"
  /\ UNCHANGED <<vars, breakpoints, nextBreakpoint, isRunning, history>>

-----------------------------------------------------------------------------
(* The commands (execCommand).  help, info, frame, examine, print and an   *)
(* empty or refused command change nothing and are left out.               *)

(* A command that leaves the command loop. *)
Resume(c, a) ==
  /\ ctl = "prompt" /\ ctl' = "go"
  /\ Resumed(c, a)
  /\ UNCHANGED <<vars, nextBreakpoint, isRunning, offender, wanted>>

(* A command that stays in it. *)
Stay == ctl = "prompt" /\ UNCHANGED <<ctl, cmd, target, ran>>

StepCmd ==
  /\ Resume("step", NoAddr)
  /\ breakpoints' = With(breakpoints, 0, 0)

NextCmd ==
  /\ Resume("next", NextAddr(pc))
  /\ breakpoints' = With(breakpoints, NextAddr(pc), 0)

ContinueCmd ==
  /\ Resume("continue", NoAddr)
  /\ UNCHANGED breakpoints

ReturnAddr == IF reg.ra # 0 THEN reg.ra ELSE cp0.epc

Finish ==
  /\ ReturnAddr # 0
  /\ Resume("finish", ReturnAddr)
  /\ breakpoints' = With(breakpoints, ReturnAddr, 0)

Break(a) ==
  /\ Stay
  /\ a \notin DOMAIN breakpoints
  /\ nextBreakpoint <= MaxBreaks
  /\ breakpoints' = With(breakpoints, a, nextBreakpoint)
  /\ nextBreakpoint' = nextBreakpoint + 1
  /\ wanted' = wanted \union {a}
  /\ UNCHANGED <<vars, isRunning, offender>>

Delete(a) ==            \* delete <num>, num the ID at a
  /\ Stay
  /\ a \in DOMAIN breakpoints /\ breakpoints[a] # 0
  /\ breakpoints' = Without(breakpoints, a)
  /\ wanted' = wanted \ {a}
  /\ UNCHANGED <<vars, nextBreakpoint, isRunning, offender>>

DeleteAll ==
  /\ Stay
  /\ breakpoints' = Restrict(breakpoints, SystemAddrs)
  /\ wanted' = {}
  /\ UNCHANGED <<vars, nextBreakpoint, isRunning, offender>>

List ==                 \* list at the MMIO words reads input_data
  /\ Stay
  /\ dev' = [dev EXCEPT !.inReady = 0]
  /\ UNCHANGED <<pc, reg, cp0, outcome, typed, latched, loaded, stored,
                 clobbered, resume, detoured, breakpoints, nextBreakpoint,
                 isRunning, offender, wanted>>

(* resetSimulator: a fresh State, the streams as they are.  The histories  *)
(* of Simulator start again, but typed, which counts against MaxTyped.     *)
Restart ==
  /\ Stay
  /\ pc' = Text /\ reg' = ResetRegisters /\ cp0' = ResetCop0
  /\ dev' = ResetDevices(dev.input, dev.output)
  /\ outcome' = "running"
  /\ latched' = <<>> /\ loaded' = <<>>
  /\ stored' = dev.output /\ clobbered' = FALSE
  /\ resume' = Text /\ detoured' = FALSE
  /\ breakpoints' = With(breakpoints, Text, 0)
  /\ isRunning' = TRUE /\ offender' = NoAddr
  /\ UNCHANGED <<typed, wanted>>

RunForgetsIds == Restart /\ nextBreakpoint' = 1
Run           == Restart /\ UNCHANGED nextBreakpoint

ExitCmd ==
  /\ ctl = "prompt" /\ ctl' = "closed"
  /\ UNCHANGED <<vars, breakpoints, nextBreakpoint, isRunning, history>>

-----------------------------------------------------------------------------
DInit ==
  /\ Init
  /\ breakpoints = [a \in {Text} |-> 0]
  /\ nextBreakpoint = 1
  /\ isRunning = TRUE
  /\ ctl = "top"
  /\ cmd = "none" /\ target = NoAddr /\ ran = FALSE
  /\ offender = NoAddr /\ wanted = {}

Loop == InteractiveStep \/ Go \/ NotRunning \/ Catch \/ Escape

Command ==
  \/ StepCmd \/ NextCmd \/ ContinueCmd \/ Finish
  \/ \E a \in BreakAddrs : Break(a) \/ Delete(a)
  \/ DeleteAll \/ List \/ Run \/ ExitCmd

DNext ==
  \/ Loop
  \/ Command
  \/ \E c \in Byte : Type(c) /\ UNCHANGED debug

DSpec == DInit /\ [][DNext]_dvars

(* simulate goes round its loop by itself, outside the command loop. *)
DFairSpec == DSpec /\ WF_dvars(Loop)

-----------------------------------------------------------------------------
Ids == 0 .. MaxBreaks

(* The types of the debugger's state and of its history variables. *)
DTypeOK ==
  /\ TypeOK
  /\ DOMAIN breakpoints \subseteq Word
  /\ \A a \in DOMAIN breakpoints : breakpoints[a] \in Ids
  /\ nextBreakpoint \in 1 .. MaxBreaks + 1
  /\ isRunning \in BOOLEAN
  /\ ctl \in {"top", "prompt", "go", "closed"}
  /\ cmd \in {"none", "step", "next", "continue", "finish"}
  /\ target \in Word \union {NoAddr} /\ offender \in Word \union {NoAddr}
  /\ ran \in BOOLEAN
  /\ wanted \subseteq BreakAddrs

(***************************************************************************)
(* A breakpoint ID names one address, and is never given again after its   *)
(* breakpoint is gone (debug_simulator.hpp:49-53).                         *)
(***************************************************************************)
IdsAreUnique ==
  \A a, b \in DOMAIN breakpoints :
     breakpoints[a] # 0 =>
       /\ breakpoints[a] < nextBreakpoint
       /\ breakpoints[a] = breakpoints[b] => a = b

(***************************************************************************)
(* The program is stopped where the user asked for it: a step command runs *)
(* one step, next and finish never run past their target, and nothing at   *)
(* a breakpoint runs before the user was asked, whichever breakpoints were *)
(* set, hit or erased meanwhile (debug_simulator.cpp:109-129, 276-321).    *)
(***************************************************************************)
StopsWhereAsked ==
  ctl = "go" /\ isRunning /\ ran =>
    cmd # "step" /\ pc # target /\ pc \notin DOMAIN breakpoints

Fetchable(a) == Valid(a) /\ ~(TextSecEnd <= a /\ a < KText) /\ a % 4 = 0

(***************************************************************************)
(* After the program has ended by an instruction that was fetched, the     *)
(* debugger shows that instruction, and goes on showing it until run       *)
(* (debug_simulator.cpp:151-167).                                          *)
(***************************************************************************)
ShowsFetchedOffender == ~isRunning /\ Fetchable(offender) => pc = offender

(***************************************************************************)
(* An ended program can neither run on nor leave the user without a        *)
(* prompt, whatever command resumes it (debug_simulator.cpp:143-146).      *)
(***************************************************************************)
PromptReturns == ~isRunning ~> ctl \in {"prompt", "closed"}

(***************************************************************************)
(* Without a handler in kernel text a trap ends the program: CAUSE stays   *)
(* clear, and a step that raises an interrupt does not let it run on, also *)
(* when the pump has already taken or printed a character                  *)
(* (simulator.cpp:108-112, debug_simulator.cpp:151-158).                   *)
(***************************************************************************)
UnhandledTrapEnds ==
  [][ctl = "go" /\ ctl' = "top" /\ isRunning /\ ~Valid(KText) =>
       /\ cp0'.cause = "none"
       /\ KeyIntr \/ DisplayIntr => outcome' # "running"]_dvars

(* "continue - Continue execution until the next breakpoint or program     *)
(* termination" (debug_simulator.cpp:23): it does not run through an       *)
(* address where a breakpoint was set and never deleted.                   *)
ContinueStopsAtBreakpoints ==
  ctl = "go" /\ isRunning /\ ran /\ cmd = "continue" => pc \notin wanted
=============================================================================
