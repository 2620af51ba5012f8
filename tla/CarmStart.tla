----------------------------- MODULE CarmStart ------------------------------
(***************************************************************************)
(* A program from its source to its end, as far as the start of the        *)
(* runtime and the allocation of memory go: the carm_init and              *)
(* carm_libc_transform passes, the constructors that the loader runs, the  *)
(* main function of carm_runtime.cpp, and do_work.                         *)
(*                                                                         *)
(* A function is the sequence of its calls in the order of its blocks; a   *)
(* call names the variable it is about, and strdup also the one it copies; *)
(* sizes are left out (no block is empty).                                 *)
(* Functions of the program that call each other are not distinguished.    *)
(***************************************************************************)
EXTENDS Integers, Sequences

CONSTANTS
    Modules,     \* the programs: function -> its calls
    Variables,   \* pointer variables of the programs
    Argvs        \* command lines

VARIABLES
    source,      \* the module as it was written
    code,        \* the module as the passes have left it
    stage,       \* the pass or the phase of the run that is next
    at,          \* the next call of the function that runs
    carm_rt,     \* does the runtime exist?
    cmdline,     \* argv of the process
    cmdlist,     \* what main keeps for the program: count and arguments
    argc, args,  \* what the program sees
    heap,        \* where the block of a variable is
    wanted       \* history: where the source says it is to be

progVars == <<source, code>>
argVars == <<cmdline, cmdlist, argc, args>>
vars == <<source, code, stage, at, carm_rt, argVars, heap, wanted>>

(* The function that the loader calls for a global variable, a constructor *)
(* it calls, and the work of the program.                                  *)
VarInit == "cxx_global_var_init"
Constructor == "constructor"
Work == "do_work"

NULL == "NULL"

(* The calls of the source that are about memory, and the annotation. *)
SourceCalls ==
    [fn : {"annotation", "malloc", "mmap", "calloc", "realloc", "free", "strdup"},
     var : Variables, from : Variables]

ASSUME StartAssumption ==
    /\ \A m \in Modules :
          DOMAIN m = {VarInit, Constructor, "main"} \/ DOMAIN m = {VarInit, Constructor, Work}
    /\ \A m \in Modules : \A f \in DOMAIN m :
          m[f] \in Seq(SourceCalls)
    /\ Argvs \subseteq Seq(STRING \ {NULL})

Internal(fn) == [fn |-> fn, var |-> CHOOSE v \in Variables : TRUE,
                 from |-> CHOOSE v \in Variables : TRUE]

-----------------------------------------------------------------------------
(* carm_init *)

(* The function of the source that becomes do_work. *)
Entry == IF Work \in DOMAIN source THEN Work ELSE "main"

(* What is put before it: a do_work that is there gets the call that       *)
(* starts the runtime, main also those that fetch its arguments.           *)
Prologue ==
    IF Entry = Work THEN <<Internal("init_carm_runtime")>>
    ELSE <<Internal("init_carm_runtime"), Internal("get_arg_count"), Internal("get_args")>>

(* runOnModule.  The main that is put in the place of the one that becomes *)
(* do_work is never run: it is renamed.                                    *)
InitTransform ==
    /\ stage = "init"
    /\ stage' = "libc"
    /\ code' = [f \in {VarInit, Constructor, Work} |->
                   IF f = Work THEN Prologue \o source[Entry] ELSE source[f]]
    /\ UNCHANGED <<source, at, carm_rt, argVars, heap, wanted>>

-----------------------------------------------------------------------------
(* carm_libc_transform *)

(* The pass takes an mmap for a malloc (of its first argument, the address *)
(* the program asks for: sizes are left out here).                         *)
Mallocs == {"malloc", "mmap"}

(* Mutant: an annotation holds for every malloc behind it. *)
local_mallocSticky(s, i) == \E a \in 1 .. i - 1 : s[a].fn = "annotation"

(* The flag local_malloc at call i: set by an annotation, cleared by the   *)
(* next malloc or mmap, whatever variable it is for.                       *)
local_malloc(s, i) ==
    \E a \in 1 .. i - 1 :
        s[a].fn = "annotation" /\ \A k \in a + 1 .. i - 1 : s[k].fn \notin Mallocs

(* What a call of the allocator is replaced by; operator new is not.       *)
Replacement ==
    [malloc |-> "carm_remote_malloc", mmap |-> "carm_remote_malloc",
     calloc |-> "carm_calloc", realloc |-> "carm_realloc", free |-> "carm_free",
     strdup |-> "carm_strdup"]

(* parse_lib_functions and the transform functions of the allocator *)
Transformed(s) ==
    [i \in DOMAIN s |->
        IF s[i].fn \notin DOMAIN Replacement THEN s[i]
        ELSE IF s[i].fn \in Mallocs /\ local_malloc(s, i)
             THEN [s[i] EXCEPT !.fn = "carm_local_malloc"]
             ELSE [s[i] EXCEPT !.fn = Replacement[@]]]

(* Mutant: the initialisation of global variables is not left alone. *)
LibcTransformAll ==
    /\ stage = "libc"
    /\ stage' = VarInit
    /\ code' = [f \in DOMAIN code |-> Transformed(code[f])]
    /\ UNCHANGED <<source, at, carm_rt, argVars, heap, wanted>>

(* runOnModule: every function but the initialisation of globals. *)
LibcTransform ==
    /\ stage = "libc"
    /\ stage' = VarInit
    /\ code' = [f \in DOMAIN code |-> IF f = VarInit THEN code[f] ELSE Transformed(code[f])]
    /\ UNCHANGED <<source, at, carm_rt, argVars, heap, wanted>>

-----------------------------------------------------------------------------
(* The calls of the program *)

(* The function of the source that runs, and the place in it. *)
Running == IF stage = Work THEN source[Entry] ELSE source[stage]
Place == at - (Len(code[stage]) - Len(Running))

Allocators == Mallocs \cup {"calloc"}

(* The programs whose annotations say what the flag of the pass makes of   *)
(* them: an annotation is for the variable that the next malloc is for,    *)
(* and for no calloc before it.                                            *)
FitsAnnotations(s) ==
    \A i \in DOMAIN s : s[i].fn = "annotation" =>
        \A k \in i + 1 .. Len(s) :
            /\ s[k].fn \in Allocators
            /\ \A h \in i + 1 .. k - 1 : s[h].fn \notin Mallocs
            => \/ s[k].fn \in Mallocs /\ s[k].var = s[i].var
               \/ s[k].fn = "calloc" /\ s[k].var # s[i].var

(* Where the source wants the block that is allocated: in local memory if  *)
(* the variable was annotated for it, and before the runtime starts.       *)
Wanted(v) ==
    LET s == Running
        annotated == \E a \in 1 .. Place - 1 :
            /\ s[a].fn = "annotation" /\ s[a].var = v
            /\ \A k \in a + 1 .. Place - 1 : ~(s[k].fn \in Allocators /\ s[k].var = v)
    IN  IF stage # Work \/ annotated THEN "local" ELSE "far"

Crash ==
    /\ stage' = "crashed"
    /\ UNCHANGED <<at, heap, wanted>>

(* The call leaves v with a block in a memory, where it is wanted or not. *)
SetBlock(v, where, want) ==
    /\ heap' = [heap EXCEPT ![v] = where]
    /\ wanted' = [wanted EXCEPT ![v] = want]
    /\ at' = at + 1
    /\ UNCHANGED stage

(* carm_remote_malloc, carm_local_malloc and carm_calloc all write to the  *)
(* allocation map of the runtime, also for a local block.                  *)
carm_malloc(c) ==
    /\ c.fn \in {"carm_remote_malloc", "carm_local_malloc", "carm_calloc"}
    /\ IF ~carm_rt THEN Crash
       ELSE SetBlock(c.var, IF c.fn = "carm_local_malloc" THEN "local" ELSE "far", Wanted(c.var))

(* The functions of libc, where no pass has replaced them. *)
libc_malloc(c) ==
    /\ c.fn \in Allocators
    /\ SetBlock(c.var, "local", Wanted(c.var))

(* carm_realloc leaves a local block, and the null pointer, to libc. *)
carm_realloc(c) ==
    /\ c.fn = "carm_realloc"
    /\ SetBlock(c.var, IF heap[c.var] = "far" THEN "far" ELSE "local",
                IF heap[c.var] = "none" THEN "local" ELSE wanted[c.var])

(* carm_free takes a far block back and leaves the others to libc. *)
carm_free(c) ==
    /\ c.fn = "carm_free"
    /\ SetBlock(c.var, "none", "none")

(* carm_strdup allocates the copy where the string is. *)
carm_strdup(c) ==
    /\ c.fn = "carm_strdup"
    /\ SetBlock(c.var, heap[c.from], wanted[c.from])

(* A block of libc, before any far block exists, goes through libc. *)
libc_call(c) ==
    \/ c.fn = "realloc" /\ SetBlock(c.var, "local", "local")
    \/ c.fn = "free" /\ SetBlock(c.var, "none", "none")
    \/ c.fn = "strdup" /\ SetBlock(c.var, heap[c.from], wanted[c.from])

Skip(c) == c.fn = "annotation" /\ at' = at + 1 /\ UNCHANGED <<stage, heap, wanted>>

(* init_carm_runtime; the address it needs is there since main ran. *)
init_carm_runtime(c) ==
    /\ c.fn = "init_carm_runtime"
    /\ carm_rt' = TRUE
    /\ at' = at + 1
    /\ UNCHANGED <<stage, heap, wanted, argc, args>>

(* get_arg_count and get_args *)
get_arguments(c) ==
    /\ \/ c.fn = "get_arg_count" /\ argc' = cmdlist.arg_count /\ UNCHANGED args
       \/ c.fn = "get_args" /\ args' = cmdlist.args /\ UNCHANGED argc
    /\ at' = at + 1
    /\ UNCHANGED <<stage, heap, wanted, carm_rt>>

Calls(f) ==
    /\ stage = f
    /\ at <= Len(code[f])
    /\ LET c == code[f][at]
       IN  \/ /\ carm_malloc(c) \/ libc_malloc(c) \/ carm_realloc(c) \/ carm_free(c)
                 \/ carm_strdup(c) \/ libc_call(c) \/ Skip(c)
              /\ UNCHANGED <<carm_rt, argc, args>>
           \/ init_carm_runtime(c)
           \/ get_arguments(c)
    /\ UNCHANGED <<progVars, cmdline, cmdlist>>

(* A function is over: the loader goes on, or the work is done. *)
Returns ==
    /\ stage \in DOMAIN code
    /\ at > Len(code[stage])
    /\ at' = 1
    /\ stage' = CASE stage = VarInit -> Constructor
                  [] stage = Constructor -> "main"
                  [] stage = Work -> "end"
    /\ UNCHANGED <<progVars, carm_rt, argVars, heap, wanted>>

-----------------------------------------------------------------------------
(* main of carm_runtime.cpp *)

(* Mutant: the name of the program is not counted. *)
arg_countShort(n) == n - 4

arg_count(n) == n - 2

(* pargs: the name of the program and what follows the configuration and   *)
(* the address, in as many zeroed places as argv has and one.              *)
pargs ==
    [k \in 1 .. Len(cmdline) + 1 |->
        IF k = 1 THEN cmdline[1]
        ELSE IF k + 2 <= Len(cmdline) THEN cmdline[k + 2] ELSE NULL]

(* Mutant: a command line is not measured. *)
mainUnchecked ==
    /\ stage = "main"
    /\ cmdlist' = [arg_count |-> arg_count(Len(cmdline)), args |-> pargs]
    /\ stage' \in {Work, "failed"}
    /\ UNCHANGED <<progVars, at, carm_rt, cmdline, argc, args, heap, wanted>>

(* The scheduler runs do_work, if it starts at all. *)
main ==
    /\ stage = "main"
    /\ IF Len(cmdline) < 3 THEN stage' = "usage" /\ UNCHANGED cmdlist
       ELSE /\ cmdlist' = [arg_count |-> arg_count(Len(cmdline)), args |-> pargs]
            /\ stage' \in {Work, "failed"}
    /\ UNCHANGED <<progVars, at, carm_rt, cmdline, argc, args, heap, wanted>>

-----------------------------------------------------------------------------
Init ==
    /\ source \in Modules
    /\ code = source
    /\ stage = "init"
    /\ at = 1
    /\ carm_rt = FALSE
    /\ cmdline \in Argvs
    /\ cmdlist = [arg_count |-> 0, args |-> <<>>]
    /\ argc = 0
    /\ args = <<>>
    /\ heap = [v \in Variables |-> "none"]
    /\ wanted = heap

Next ==
    \/ InitTransform \/ LibcTransform
    \/ \E f \in {VarInit, Constructor, Work} : Calls(f)
    \/ Returns \/ main

Spec == Init /\ [][Next]_vars

-----------------------------------------------------------------------------
(* Properties *)

(* Type invariant. *)
TypeOK ==
    /\ stage \in {"init", "libc", VarInit, Constructor, "main", Work,
                  "end", "usage", "failed", "crashed"}
    /\ at \in Nat \ {0}
    /\ carm_rt \in BOOLEAN
    /\ cmdlist.arg_count \in Nat /\ argc \in Nat
    /\ heap \in [Variables -> {"none", "local", "far"}]
    /\ wanted \in [Variables -> {"none", "local", "far"}]

(* What carm_libc_transform has put into the program works when it runs:   *)
(* the runtime exists before a call needs it, in constructors too.         *)
CallsFindRuntime == stage # "crashed"

(* The source decides where a block is: an annotated malloc and whatever   *)
(* global variables hold is local, the rest far, and a block stays there   *)
(* through realloc and strdup.                                             *)
AnnotationsHonoured == heap = wanted

(* The program sees its command line without the configuration file and    *)
(* the address of the runtime, and with a null pointer behind the last.    *)
ArgumentsArrive ==
    stage = "end" /\ "main" \in DOMAIN source =>
        /\ argc = Len(cmdline) - 2
        /\ args[1] = cmdline[1]
        /\ \A k \in 2 .. argc : args[k] = cmdline[k + 2]
        /\ \A k \in argc + 1 .. Len(args) : args[k] = NULL
        /\ Len(args) > argc

-----------------------------------------------------------------------------
(* What a program keeps to, and the inductive invariant *)

(* The annotations of every program fit. *)
AnnotationsFit ==
    \A m \in Modules : \A f \in DOMAIN m \cap {"main", Work} : FitsAnnotations(m[f])

(* No constructor allocates a new block. *)
ConstructorsWait ==
    \A m \in Modules : \A i \in DOMAIN m[Constructor] :
        m[Constructor][i].fn \notin Allocators

(* The module behind the first pass, and behind both. *)
Initialised ==
    [f \in {VarInit, Constructor, Work} |->
        IF f = Work THEN Prologue \o source[Entry] ELSE source[f]]

Compiled ==
    [f \in {VarInit, Constructor, Work} |->
        IF f = VarInit THEN source[f] ELSE Transformed(Initialised[f])]

InputsInv == source \in Modules /\ cmdline \in Argvs

CodeInv ==
    code = CASE stage = "init" -> source
             [] stage = "libc" -> Initialised
             [] OTHER -> Compiled

(* The runtime starts in do_work, with its first call. *)
RuntimeInv ==
    /\ stage \in {"init", "libc", VarInit, Constructor, "main"} => ~carm_rt
    /\ stage = "main" => at = 1
    /\ stage = Work /\ at > 1 => carm_rt

(* main has kept the command line; the two calls behind the first one      *)
(* fetch it.                                                               *)
ArgumentsInv ==
    /\ stage \in {Work, "end"} =>
        /\ Len(cmdline) >= 3
        /\ cmdlist = [arg_count |-> Len(cmdline) - 2, args |-> pargs]
    /\ "main" \in DOMAIN source =>
        /\ stage = "end" \/ (stage = Work /\ at > 2) => argc = cmdlist.arg_count
        /\ stage = "end" \/ (stage = Work /\ at > 3) => args = cmdlist.args

StartInv == TypeOK /\ InputsInv /\ CodeInv /\ RuntimeInv /\ ArgumentsInv
=============================================================================
