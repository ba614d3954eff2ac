-------------------------------- MODULE Exec --------------------------------
(***************************************************************************)
(* A child process whose output is read from a pipe: the function          *)
(* execute_with_wait_pipe of win32/exec.cpp ("exec"), the one of the same  *)
(* name of win32_pipe/test_win32_pipe.cpp ("wait_pipe"), and               *)
(* execute_with_pipe of the latter file ("pipe").                          *)
(***************************************************************************)
EXTENDS Integers, Sequences

CONSTANTS MaxOut,    \* bytes the child may write
          PipeSize,  \* bytes the pipe holds
          BufSize,   \* the length of the caller's buffer
          MaxWait    \* how often the loop after a broken pipe waits for the child, 31

VARIABLES fn,        \* the function that runs
          pc,
          proc_exit, \* its variable; in execute_with_pipe: dw = WAIT_OBJECT_0
          length,    \* bytes asked of ReadFile()
          left,      \* waits left after a broken pipe
          got,       \* bytes handed to stdout_cb
          ret,       \* why the function returned
          pipe,      \* bytes in the pipe; 0 stands for a write of no bytes
          holders,   \* processes with a handle of the write end
          written,   \* bytes the child wrote
          nothing,   \* whether it has made a write of no bytes
          running    \* whether it runs

parent == <<proc_exit, length, left, got, ret>>
child == <<written, nothing, running>>
vars == <<fn, pc, parent, pipe, holders, child>>

PipeFns == {"exec", "wait_pipe", "pipe"}

Idle == /\ proc_exit = FALSE /\ length = BufSize /\ left = MaxWait /\ got = <<>> /\ ret = ""
        /\ pipe = <<>> /\ holders = {} /\ written = 0 /\ nothing = FALSE /\ running = FALSE

Init == fn \in PipeFns /\ pc = "start" /\ Idle

-----------------------------------------------------------------------------
(* The child.  A write blocks while the pipe is full. *)

child_write ==
    /\ "child" \in holders /\ Len(pipe) < PipeSize
    /\ \/ written < MaxOut /\ written' = written + 1
          /\ pipe' = Append(pipe, written + 1) /\ UNCHANGED nothing
       \/ ~nothing /\ nothing' = TRUE /\ pipe' = Append(pipe, 0) /\ UNCHANGED written
    /\ UNCHANGED <<fn, pc, parent, holders, running>>

\* It may close its output some time before it exits, or never exit.
child_close ==
    /\ "child" \in holders
    /\ holders' = holders \ {"child"}
    /\ UNCHANGED <<fn, pc, parent, pipe, child>>

child_exit ==
    /\ running
    /\ running' = FALSE /\ holders' = holders \ {"child"}
    /\ UNCHANGED <<fn, pc, parent, pipe, written, nothing>>

-----------------------------------------------------------------------------
(* The parent. *)

Return(why) == pc' = "done" /\ ret' = why

create_pipe ==
    /\ pc = "start"
    /\ \/ pc' = "create" /\ holders' = {"parent"} /\ UNCHANGED ret
       \/ Return("CreatePipe failed") /\ UNCHANGED holders
    /\ UNCHANGED <<fn, proc_exit, length, left, got, pipe, child>>

KeepsHandle(now) == holders' = now

\* The first two close their own handle of the write end in either case, the third
\* keeps it.
CloseWritePipe(now) == holders' = IF fn = "pipe" THEN now ELSE now \ {"parent"}

create_process ==
    /\ pc = "create"
    /\ \/ pc' = "wait" /\ running' = TRUE /\ CloseWritePipe(holders \cup {"child"}) /\ UNCHANGED ret
       \/ Return("CreateProcess failed") /\ CloseWritePipe(holders) /\ UNCHANGED running
    /\ UNCHANGED <<fn, proc_exit, length, left, got, pipe, written, nothing>>

\* The first two wait for the pipe, then ask whether the child has exited; the third
\* waits for the child for a while and remembers the same.  A wait that times out
\* leaves the first two where they are.
wait ==
    /\ pc = "wait"
    /\ \/ pc' = "read" /\ proc_exit' = ~running /\ UNCHANGED ret
       \/ Return("WaitForSingleObject failed") /\ UNCHANGED proc_exit
    /\ UNCHANGED <<fn, length, left, got, pipe, holders, child>>

\* After the callback: the third is done once it has seen the child exited, and closes
\* its handle of the write end.
HandsOver ==
    IF fn = "pipe" /\ proc_exit
    THEN Return("done") /\ holders' = holders \ {"parent"}
    ELSE pc' = "wait" /\ UNCHANGED <<ret, holders>>

\* n bytes fill the buffer, or a write of no bytes or the end of the data follows them.
Available(n) ==
    /\ n <= Len(pipe) /\ \A k \in 1..n : pipe[k] # 0
    /\ n \notin {length, Len(pipe)} => pipe[n + 1] = 0

NotSkipped(n) == IF fn = "exec" THEN n ELSE length

\* The first sets its buffer's length to what it read, unless that is nothing.
LengthAfter(n) == IF fn = "exec" /\ n > 0 THEN n ELSE length

\* ReadFile() blocks while the pipe is empty and somebody could write to it.
read ==
    /\ pc = "read" /\ pipe # <<>>
    /\ \E n \in 0..length :
          /\ Available(n)
          /\ got' = got \o SubSeq(pipe, 1, n)
          /\ pipe' = IF n = 0 THEN Tail(pipe) ELSE SubSeq(pipe, n + 1, Len(pipe))
          /\ length' = LengthAfter(n)
    /\ HandsOver
    /\ UNCHANGED <<fn, proc_exit, left, child>>

\* Nobody can write any more: ERROR_BROKEN_PIPE.
read_fails ==
    /\ pc = "read" /\ pipe = <<>> /\ holders = {}
    /\ pc' = "exits" /\ UNCHANGED <<fn, parent, pipe, holders, child>>

\* Having lost the pipe, wait for the child some three seconds, then give up.
wait_exit ==
    /\ pc = "exits"
    /\ \/ ~proc_exit /\ left > 0
          /\ \/ proc_exit' = ~running /\ left' = left - 1 /\ UNCHANGED <<pc, ret>>
             \/ Return("done") /\ UNCHANGED <<proc_exit, left>>   \* the wait fails
       \/ (proc_exit \/ left = 0) /\ Return("done") /\ UNCHANGED <<proc_exit, left>>
    /\ UNCHANGED <<fn, length, got, pipe, holders, child>>

Run == create_pipe \/ create_process \/ wait \/ read \/ read_fails \/ wait_exit
Next == Run \/ child_write \/ child_close \/ child_exit

Fairness == WF_vars(Run)
Spec == Init /\ [][Next]_vars /\ Fairness

-----------------------------------------------------------------------------
(* Properties *)

\* Why the function returned; "" while it runs.
Reasons == {"", "CreatePipe failed", "CreateProcess failed", "WaitForSingleObject failed", "done"}

TypeOK ==
    /\ fn \in PipeFns /\ pc \in {"start", "create", "wait", "read", "exits", "done"}
    /\ proc_exit \in BOOLEAN /\ length \in 1..BufSize /\ left \in 0..MaxWait
    /\ got \in Seq(1..MaxOut) /\ pipe \in Seq(0..MaxOut) /\ holders \subseteq {"parent", "child"}
    /\ written \in 0..MaxOut /\ {nothing, running} \subseteq BOOLEAN /\ ret \in Reasons

\* The callback sees the bytes the child wrote, in order, and when one of the first two
\* functions returns after a broken pipe it has seen all of them.
Captured ==
    /\ got = [k \in 1..Len(got) |-> k] /\ Len(got) <= written
    /\ pc = "done" /\ ret = "done" /\ fn # "pipe" =>
          Len(got) = written /\ "child" \notin holders

Waiting == pc \in {"wait", "read", "exits"} /\ IF fn = "pipe" THEN ~running ELSE "child" \notin holders
Over == pc = "done" \/ (fn = "pipe" /\ pc = "read" /\ pipe = <<>> /\ holders = {"parent"})

\* The first two functions return once the child has closed its output, whether it
\* exits or not: "@IMPORTANT! or ReadFile() will blocked".  The third, marked "with BUGS",
\* returns after the child has exited unless it reads the empty pipe it keeps open
\* itself: then it waits for good.
Returns == Waiting ~> Over
=============================================================================
