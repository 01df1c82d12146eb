------------------------------ MODULE Programs ------------------------------
(* Files, macros and their nesting: assemble_prog() called for each source   *)
(* file, and by INCLUDE and macro expansion from within itself, with the     *)
(* stack of contexts it keeps and the macro that is being defined.  One      *)
(* action is one line of the innermost program.                              *)
(*                                                                           *)
(* A line is [op, name]: its kind and the macro, file, section or condition  *)
(* it names.  What lines emit or define is left out; whether another pass is *)
(* needed is decided there, and is a free choice here.                       *)
EXTENDS Integers, SequencesExt, CondOps, ErrorLevels

CONSTANTS
    Sources,        \* the files of the command line, in order
    Texts,          \* what may be in the files: functions from name to lines
    MaxDepth,       \* max_program_depth
    MaxPasses       \* max_passes

AllLines == UNION {UNION {Range(t[f]) : f \in DOMAIN t} : t \in Texts}

ASSUME ProgramsConstants ==
    /\ MaxDepth \in Nat \ {0}
    /\ MaxPasses \in Nat \ {0}
    /\ \A t \in Texts :
           /\ Sources \in Seq(DOMAIN t)
           /\ \A f \in DOMAIN t : t[f] \in Seq(AllLines)

VARIABLES
    text,           \* the lines of every file
    pass,           \* asm_pass
    queue,          \* the source files this pass has still to assemble
    stack,          \* prog_ctx_stack, innermost last, with the locals of assemble_prog()
    macros,         \* macros, by name
    defining,       \* defining_macro_level
    defCtx,         \* defining_macro_ctx: a position in stack, NULL or dangling
    depth,          \* prog_depth
    args,           \* interp_stack: the macros whose arguments are on it
    section,        \* the name of cur_section
    level,          \* error_level
    status,         \* "pass" and "done", or the end of the model, as Break says
    trace,          \* history: the places this pass has been at, one for each step
    first           \* history: those of the first pass

vars == <<text, pass, queue, stack, macros, defining, defCtx, depth, args, section,
          level, status, trace, first>>

NoCtx    == 0
Dangling == -1

CondKinds == {"if", "elsif", "else", "endif"}

Lines(prog) == IF prog.type = "file" THEN text[prog.name] ELSE macros[prog.name].body

Context(prog, defines) ==
    [prog |-> prog, line |-> 0, cond |-> NoConds, section |-> section, defines |-> defines]

Init ==
    /\ text \in Texts
    /\ pass = 0
    /\ queue = Sources
    /\ stack = <<>>
    /\ macros = <<>>
    /\ defining = 0
    /\ defCtx = NoCtx
    /\ depth = 0
    /\ args = <<>>
    /\ section = "CODE"
    /\ level = None
    /\ status = "pass"
    /\ trace = <<>>
    /\ first = <<>>

(* The contexts of the activations of assemble_prog(); the others on the     *)
(* stack belong to macros begun and not finished.                            *)
Active  == {i \in DOMAIN stack : ~stack[i].defines}
Running == Max(Active)
Ctx     == stack[Running]
Line    == Lines(Ctx.prog)[Ctx.line + 1]

Assembling == status = "pass" /\ depth > 0
Ended      == Ctx.line >= Len(Lines(Ctx.prog))
Moved      == [stack EXCEPT ![Running].line = @ + 1]
Named(m)   == [type |-> "macro", name |-> m]

(* The line is MACRO or ENDM, where conditional assembly lets it be seen.    *)
Opens  == Line.op = "macro" /\ Included(Ctx.cond)
Closes == Line.op \in {"endm", "badendm"} /\ Included(Ctx.cond)

(* Where assembly is: the files to come, the programs under way, each with   *)
(* its line and its conditions, the section, and the level of definition.    *)
Place ==
    [queue    |-> queue,
     progs    |-> IF depth = 0 THEN <<>> ELSE SubSeq(stack, 1, Running),
     section  |-> section,
     defining |-> defining]

Visit == trace' = Append(trace, Place)

ReadLine ==
    /\ Assembling
    /\ ~Ended
    /\ Visit
    /\ UNCHANGED <<text, pass, queue, first>>

Report(type) == level' = Raise(level, type)

(* An assertion fails ("aborted") or a freed context is used ("undefined").  *)
(* Nothing is said of what follows.                                          *)
Break(how) ==
    /\ status' = how
    /\ UNCHANGED <<stack, macros, defining, defCtx, depth, args, section, level>>

(* prog_ctx_free(): a macro's context on top of the one to be freed goes     *)
(* too, as an unfinished macro.  If the one to be freed is not on top then,  *)
(* the assertion fails; a macro being expanded would be freed in use.        *)
(*                                                                           *)
(* Those that come before Unfinished and other operators below are wrong     *)
(* versions of them, which the runs must refute.                             *)
CanFree(h) ==
    \/ h = Len(stack)
    \/ h = Len(stack) - 1 /\ stack[Len(stack)].defines

BadFree(h) ==
    IF stack[Len(stack)].prog.type = "file" \/ h < Len(stack) - 1
    THEN "aborted" ELSE "undefined"

UnfinishedUnnoticed(h) == FALSE

Unfinished(h) == h < Len(stack)

(* defining_macro_level counts the definitions inside the one recorded.      *)
LevelUncounted == defining

LevelAfter ==
    CASE Opens  -> defining + 1
      [] Closes -> defining - 1
      [] OTHER  -> defining

(* A macro must have a name, and only one definition in a pass.              *)
MacroError(m) == m = "none" \/ macros[m].pass = pass

(* interp_push() and interp_pop() bracket the expansion of a macro, which    *)
(* does not happen where programs are nested too deep.                       *)
ArgsForgotten(m) == Append(args, m)

ArgsOf(m) == IF depth >= MaxDepth THEN args ELSE Append(args, m)

(* Each pass has its number, and begins in section CODE.                     *)
PassAgain == pass

PassAfter == pass + 1

SectionKept == section

FirstSection == "CODE"

(* A line of no use to this module, or one that is excluded.                 *)
OtherLine ==
    /\ ReadLine
    /\ \/ Line.op = "blank"
       \/ defining = 0 /\ Line.op \notin CondKinds
            /\ (Included(Ctx.cond) => Line.op = "plain")
    /\ stack' = Moved
    /\ UNCHANGED <<macros, defining, defCtx, depth, args, section, level, status>>

WithMacro(m) ==
    [n \in DOMAIN macros \cup {m} |->
        IF n \in DOMAIN macros THEN macros[n] ELSE [body |-> <<>>, pass |-> pass]]

(* MACRO.  A macro already defined in an earlier pass is quietly kept, and   *)
(* the lines that follow are recorded nowhere.                               *)
MacroLine ==
    /\ ReadLine
    /\ Opens
    /\ defining = 0
    /\ defining' = 1
    /\ IF Line.name \notin DOMAIN macros /\ Line.name # "none"
       THEN /\ macros' = WithMacro(Line.name)
            /\ stack' = Append(Moved, Context(Named(Line.name), TRUE))
            /\ defCtx' = Len(stack) + 1
            /\ UNCHANGED level
       ELSE /\ Report(IF MacroError(Line.name) THEN Syntax ELSE None)
            /\ stack' = Moved
            /\ UNCHANGED <<macros, defCtx>>
    /\ UNCHANGED <<depth, args, section, status>>

(* Any line up to the matching ENDM is added to the macro.                   *)
BodyLine ==
    /\ ReadLine
    /\ defining > 0
    /\ Line.op # "blank"
    /\ ~(Closes /\ defining = 1)
    /\ IF defCtx = Dangling THEN Break("undefined")
       ELSE /\ defining' = LevelAfter
            /\ macros' = IF defCtx = NoCtx THEN macros
                         ELSE [macros EXCEPT ![stack[defCtx].prog.name].body = Append(@, Line)]
            /\ stack' = Moved
            /\ UNCHANGED <<defCtx, depth, args, section, level, status>>

(* ENDM.  With bad arguments it leaves the macro's context where it is.      *)
EndmLine ==
    /\ ReadLine
    /\ Closes
    /\ defining = 1
    /\ CASE Line.op = "badendm" ->
              /\ defining' = 0
              /\ stack' = Moved
              /\ Report(Syntax)
              /\ UNCHANGED <<macros, defCtx, depth, args, section, status>>
         [] Line.op = "endm" /\ defCtx = NoCtx ->
              /\ defining' = 0
              /\ stack' = Moved
              /\ UNCHANGED <<macros, defCtx, depth, args, section, level, status>>
         [] Line.op = "endm" /\ defCtx > NoCtx /\ CanFree(defCtx) ->
              /\ defining' = 0
              /\ stack' = SubSeq(Moved, 1, defCtx - 1)
              /\ defCtx' = NoCtx
              /\ Report(IF Unfinished(defCtx) THEN Syntax ELSE None)
              /\ UNCHANGED <<macros, depth, args, section, status>>
         [] OTHER -> Break(IF defCtx = Dangling THEN "undefined" ELSE BadFree(defCtx))

StrayEndm ==
    /\ ReadLine
    /\ Closes
    /\ defining = 0
    /\ stack' = Moved
    /\ Report(Syntax)
    /\ UNCHANGED <<macros, defining, defCtx, depth, args, section, status>>

(* A condition is met always, never, or once a symbol is known: from the     *)
(* second pass on.                                                           *)
Holds == Line.name = "yes" \/ (Line.name = "later" /\ pass > 0)

AfterCond(c) ==
    CASE Line.op = "if"    -> AfterIf(c, Holds)
      [] Line.op = "elsif" -> AfterElsif(c, Holds)
      [] Line.op = "else"  -> AfterElse(c)
      [] Line.op = "endif" -> AfterEndif(c)

CondError(c) ==
    \/ Line.op \in {"elsif", "else"} /\ Misplaced(c)
    \/ Line.op = "endif" /\ Depth(c) = 0

CondLine ==
    /\ ReadLine
    /\ defining = 0
    /\ Line.op \in CondKinds
    /\ stack' = [Moved EXCEPT ![Running].cond = AfterCond(Ctx.cond)]
    /\ Report(IF CondError(Ctx.cond) THEN Syntax ELSE None)
    /\ UNCHANGED <<macros, defining, defCtx, depth, args, section, status>>

Assembled(op) ==
    /\ ReadLine
    /\ defining = 0
    /\ Line.op = op
    /\ Included(Ctx.cond)
    /\ UNCHANGED <<macros, defining, defCtx, status>>

SectionLine ==
    /\ Assembled("section")
    /\ section' = Line.name
    /\ stack' = Moved
    /\ UNCHANGED <<depth, args, level>>

(* assemble_prog() up to its loop.                                           *)
Enter(prog, under) ==
    IF depth >= MaxDepth
    THEN stack' = under /\ Report(Fatal) /\ UNCHANGED depth
    ELSE /\ stack' = Append(under, Context(prog, FALSE))
         /\ depth' = depth + 1
         /\ UNCHANGED level

IncludeLine ==
    /\ Assembled("include")
    /\ IF Line.name \in DOMAIN text THEN Enter([type |-> "file", name |-> Line.name], Moved)
       ELSE stack' = Moved /\ Report(Fatal) /\ UNCHANGED depth
    /\ UNCHANGED <<args, section>>

(* A macro is expanded, or the instruction is unknown.                       *)
CallLine ==
    /\ Assembled("call")
    /\ IF Line.name \in DOMAIN macros
       THEN /\ Enter(Named(Line.name), Moved)
            /\ args' = ArgsOf(Line.name)
       ELSE stack' = Moved /\ Report(Syntax) /\ UNCHANGED <<depth, args>>
    /\ UNCHANGED section

(* The end of assemble_prog(), and of INCLUDE, which goes back to the        *)
(* section it was met in, or of the expansion of a macro.                    *)
EndProg ==
    /\ Assembling
    /\ Ended
    /\ IF ~CanFree(Running) THEN Break(BadFree(Running))
       ELSE /\ stack' = SubSeq(stack, 1, Running - 1)
            /\ defCtx' = IF defCtx > Running THEN Dangling ELSE defCtx
            /\ depth' = depth - 1
            /\ Report(IF Depth(Ctx.cond) > 0 \/ Unfinished(Running) THEN Syntax ELSE None)
            /\ args' = IF Ctx.prog.type = "macro" THEN Front(args) ELSE args
            /\ section' = IF Ctx.prog.type = "file" /\ depth > 1 THEN Ctx.section ELSE section
            /\ UNCHANGED <<macros, defining, status>>
    /\ Visit
    /\ UNCHANGED <<text, pass, queue, first>>

(* main(): the next source file, ...                                         *)
BeginFile ==
    /\ status = "pass" /\ depth = 0
    /\ queue # <<>>
    /\ Enter([type |-> "file", name |-> Head(queue)], stack)
    /\ queue' = Tail(queue)
    /\ Visit
    /\ UNCHANGED <<text, pass, macros, defining, defCtx, args, section, status, first>>

(* ... and the next pass, if errors are no worse than an inconsistency.      *)
BetweenPasses == status = "pass" /\ depth = 0 /\ queue = <<>>

NextPass ==
    /\ BetweenPasses
    /\ level < Syntax
    /\ pass + 1 < MaxPasses
    /\ pass' = PassAfter
    /\ queue' = Sources
    /\ level' = None
    /\ section' = FirstSection
    /\ first' = IF pass = 0 THEN trace ELSE first
    /\ trace' = <<>>
    /\ UNCHANGED <<text, stack, macros, defining, defCtx, depth, args, status>>

LastPass ==
    /\ BetweenPasses
    /\ status' = "done"
    /\ UNCHANGED <<text, pass, queue, stack, macros, defining, defCtx, depth, args,
                   section, level, trace, first>>

Next ==
    \/ OtherLine \/ MacroLine \/ BodyLine \/ EndmLine \/ StrayEndm \/ CondLine
    \/ SectionLine \/ IncludeLine \/ CallLine \/ EndProg
    \/ BeginFile \/ NextPass \/ LastPass

Spec == Init /\ [][Next]_vars

FairSpec == Spec /\ WF_vars(Next)

-----------------------------------------------------------------------------
(* While a pass is free of errors no assertion fails and no freed context is *)
(* used; the contexts on the stack are those of the programs being           *)
(* assembled, with that of a macro being defined, if any, on top; and what a *)
(* file leaves half done is reported at its end, so that the static          *)
(* variables are as at the start when the next file, or pass, begins; of     *)
(* assemble.c:40 and prog_ctx_free() (program.c:161).                        *)
ContextsNest ==
    level < Syntax =>
        /\ status \notin {"aborted", "undefined"}
        /\ status = "pass" =>
               /\ depth = Cardinality(Active)
               /\ \A i \in DOMAIN stack : stack[i].defines <=> i = defCtx
               /\ defCtx # NoCtx => defCtx = Len(stack) /\ defining > 0
               /\ depth = 0 => stack = <<>> /\ defining = 0 /\ defCtx = NoCtx

(* Positional variables are those of the innermost macro being expanded,     *)
(* however files, macros and failures to nest them further come to an end.   *)
Expanding == {i \in Active : stack[i].prog.type = "macro"}

ArgumentsMatch ==
    /\ Len(args) = Cardinality(Expanding)
    /\ \A i \in Expanding :
           args[Cardinality({j \in Expanding : j <= i})] = stack[i].prog.name

(* A macro's body is what stands between a MACRO line of its name and the    *)
(* ENDM that matches it, without blank lines: definitions inside it          *)
(* included, and unchanged by later passes.                                  *)
Level(ls, i, k) ==
    Cardinality({j \in i .. k : ls[j].op = "macro"})
        - Cardinality({j \in i .. k : ls[j].op \in {"endm", "badendm"}})

Nonblank(ls, i, k) == {j \in i .. k : ls[j].op # "blank"}

(* The lines of "ls" from i to k, the blank ones left out.                   *)
Holding(body, ls, i, k) ==
    /\ Len(body) = Cardinality(Nonblank(ls, i, k))
    /\ \A j \in Nonblank(ls, i, k) : body[Cardinality(Nonblank(ls, i, j))] = ls[j]

DefinedAt(ls, m, i, k) ==
    /\ ls[i].op = "macro" /\ ls[i].name = m
    /\ ls[k].op = "endm" /\ Level(ls, i, k) = 0
    /\ \A j \in i .. k - 1 : Level(ls, i, j) > 0
    /\ Holding(macros[m].body, ls, i + 1, k - 1)

Complete == {m \in DOMAIN macros : defCtx = NoCtx \/ stack[defCtx].prog.name # m}

BodiesAsWritten ==
    level < Syntax /\ status = "pass" =>
        \A m \in Complete :
            \E ls \in {text[f] : f \in DOMAIN text} \cup {macros[n].body : n \in DOMAIN macros} :
                \E i, k \in DOMAIN ls : i < k /\ DefinedAt(ls, m, i, k)

(* Every pass goes where the first one went, line by line, in the same       *)
(* programs, conditions and sections, although macros are only defined in    *)
(* the first: the line numbers local labels are found by are the same in all.*)
PassesAlike ==
    pass > 0 =>
        /\ IsPrefix(trace, first)
        /\ BetweenPasses => trace = first

(* Recursive inclusions and macros come to an end, by the limit of depth.    *)
Terminates == <>(status # "pass")

-----------------------------------------------------------------------------
(* What the code and its documents say and a run refutes.                    *)

(* prog_ctx_free() asserts that the context it is to free is on top, but for *)
(* one unfinished macro.                                                     *)
AssertionsHold == status # "aborted"

(* README: "If more than one SOURCE-FILE is specified, they are assembled as *)
(* though they were all in one file."  An IF of one file is not closed by an *)
(* ENDIF of the next.                                                        *)
AllText == FlattenSeq([i \in DOMAIN Sources |-> text[Sources[i]]])

Ifs(k) ==
    Cardinality({j \in 1 .. k : AllText[j].op = "if"})
        - Cardinality({j \in 1 .. k : AllText[j].op = "endif"})

FilesAsOne ==
    /\ \A j \in DOMAIN AllText : AllText[j].op \in {"plain", "if", "endif"} /\ Ifs(j) >= 0
    /\ Ifs(Len(AllText)) = 0
    => level < Syntax

=============================================================================
