------------------------------ MODULE Intercmd ------------------------------
(***************************************************************************)
(* An interactive command driven through two pipes: send_intercmd and      *)
(* exec_intercmd of win32/exec.cpp.  The context keeps the child and its   *)
(* pipes from one directive to the next, and a child that ended is         *)
(* replaced.  Child k is the k-th one started; its pipes carry its number. *)
(* The parent keeps the child's ends of both pipes open as well, so that   *)
(* neither pipe breaks when the child ends.                                *)
(***************************************************************************)
EXTENDS Integers, Sequences

CONSTANTS MaxExec,     \* children started
          MaxCall,     \* calls of send_intercmd
          ReplyLen,    \* bytes of the reply to a directive, the last one marks its end
          BufSize      \* the length of the caller's buffer

VARIABLES hproc, rh, wh,   \* the context; 0 is NULL
          wopen,           \* whether handle wh is open
          pc, direct, calls, ret,
          started, running,
          asked,           \* of each child: directives in its standard input
          owed,            \*   bytes of replies not yet written
          written, pipe,   \*   bytes written, and those not yet read by the parent
          got              \*   bytes handed to stdout_cb

ctx == <<hproc, rh, wh, wopen>>
call == <<direct, calls, ret>>
child == <<started, running, asked, owed, written>>
vars == <<ctx, pc, call, child, pipe, got>>

Child == 1..MaxExec
Directives == {"query", "exit"}

\* test_exec_main sets the context to zero.
NoChild ==
    /\ hproc = 0 /\ rh = 0 /\ wh = 0 /\ wopen = FALSE
    /\ direct = "" /\ calls = 0 /\ ret = 0 /\ started = 0
    /\ running = {} /\ owed = [k \in Child |-> 0] /\ written = [k \in Child |-> 0]
    /\ asked = [k \in Child |-> <<>>] /\ pipe = [k \in Child |-> <<>>] /\ got = [k \in Child |-> <<>>]

Init == NoChild /\ pc = "idle"

-----------------------------------------------------------------------------
(* The child reads a directive, which it may answer or not, perhaps with a *)
(* write of no bytes first (0), writes what it owes, and ends when told to *)
(* or by itself.                                                           *)

Ends(k) == running' = running \ {k}

child_reads(k) ==
    /\ k \in running /\ asked[k] # <<>>
    /\ asked' = [asked EXCEPT ![k] = Tail(@)]
    /\ IF Head(asked[k]) = "exit" THEN Ends(k) /\ UNCHANGED owed
       ELSE /\ UNCHANGED running
            /\ owed' \in {owed, [owed EXCEPT ![k] = @ + ReplyLen]}
    /\ pipe' \in {pipe, [pipe EXCEPT ![k] = Append(@, 0)]}
    /\ UNCHANGED <<ctx, pc, call, started, written, got>>

child_writes(k) ==
    /\ k \in running /\ owed[k] > 0
    /\ owed' = [owed EXCEPT ![k] = @ - 1]
    /\ written' = [written EXCEPT ![k] = @ + 1]
    /\ pipe' = [pipe EXCEPT ![k] = Append(@, written[k] + 1)]
    /\ UNCHANGED <<ctx, pc, call, started, running, asked, got>>

child_dies(k) ==
    /\ k \in running /\ Ends(k)
    /\ UNCHANGED <<ctx, pc, call, started, asked, owed, written, pipe, got>>

-----------------------------------------------------------------------------
(* A call of send_intercmd. *)

Return(r) == pc' = "idle" /\ ret' = r

NeverReady == FALSE

is_intercmdctx_ready == hproc # 0 /\ rh # 0 /\ wh # 0

send_intercmd ==
    /\ pc = "idle" /\ calls < MaxCall
    /\ calls' = calls + 1
    /\ \/ direct' = "" /\ Return(-1)      \* not is_intercmdctx_ok
       \/ /\ direct' \in Directives
          /\ pc' = IF is_intercmdctx_ready THEN "check" ELSE "exec"
          /\ UNCHANGED ret
    /\ UNCHANGED <<ctx, child, pipe, got>>

\* Two pipes and a process; the context is filled in at the end.
exec_intercmd ==
    /\ pc = "exec"
    /\ \/ LET k == started + 1
          IN  /\ k \in Child
              /\ started' = k /\ running' = running \cup {k}
              /\ hproc' = k /\ rh' = k /\ wh' = k /\ wopen' = TRUE
              /\ pc' = "check" /\ UNCHANGED ret
       \/ Return(-1) /\ UNCHANGED <<ctx, started, running>>
    /\ UNCHANGED <<direct, calls, asked, owed, written, pipe, got>>

\* GetExitCodeProcess(): a child that ended is forgotten, and the next call
\* starts another one.
check ==
    /\ pc = "check"
    /\ IF hproc \in running THEN pc' = "send" /\ UNCHANGED <<hproc, ret>>
       ELSE hproc' = 0 /\ Return(-1)
    /\ UNCHANGED <<rh, wh, wopen, direct, calls, child, pipe, got>>

\* WriteFile().  The function does not wait for the answer to an exit directive.
send ==
    /\ pc = "send"
    /\ \/ /\ asked' = [asked EXCEPT ![wh] = Append(@, direct)]
          /\ IF direct = "exit" THEN Return(0) ELSE pc' = "wait" /\ UNCHANGED ret
       \/ Return(-1) /\ UNCHANGED asked
    /\ UNCHANGED <<ctx, direct, calls, started, running, owed, written, pipe, got>>

\* Having seen that the child ended.
Finished == hproc' = 0 /\ wopen' = FALSE

\* The wait for wh times out, which changes nothing, or succeeds, or fails: it
\* fails once wh has been closed.
wait ==
    /\ pc = "wait"
    /\ \/ /\ wopen /\ pc' = "read" /\ UNCHANGED ret
          /\ IF hproc \in running THEN UNCHANGED <<hproc, wopen>> ELSE Finished
       \/ Return(0) /\ UNCHANGED <<hproc, wopen>>
    /\ UNCHANGED <<rh, wh, direct, calls, child, pipe, got>>

\* sample_intercmd_stdout looks for the mark at the end of what it is given.
stdout_cb(data) == data[Len(data)] % ReplyLen = 0

\* n bytes fill the buffer, or a write of no bytes or the end of the data follows them.
Available(n) ==
    /\ n <= Len(pipe[rh]) /\ \A j \in 1..n : pipe[rh][j] # 0
    /\ n \notin {BufSize, Len(pipe[rh])} => pipe[rh][n + 1] = 0

\* ReadFile() blocks while the pipe is empty, and returns no bytes if none were written.
read ==
    /\ pc = "read" /\ pipe[rh] # <<>>
    /\ \/ \E n \in 0..BufSize :
             LET data == SubSeq(pipe[rh], 1, n)
             IN  /\ Available(n)
                 /\ pipe' = [pipe EXCEPT ![rh] = SubSeq(@, IF n = 0 THEN 2 ELSE n + 1, Len(@))]
                 /\ got' = [got EXCEPT ![rh] = @ \o data]
                 /\ IF n > 0 /\ stdout_cb(data) THEN Return(0) ELSE pc' = "wait" /\ UNCHANGED ret
       \/ Return(-1) /\ UNCHANGED <<pipe, got>>
    /\ UNCHANGED <<ctx, direct, calls, child>>

Run == send_intercmd \/ exec_intercmd \/ check \/ send \/ wait \/ read
Answers == \E k \in Child : child_reads(k) \/ child_writes(k)
Next == Run \/ Answers \/ \E k \in Child : child_dies(k)

\* The caller goes on and the child that runs handles its input.
Spec == Init /\ [][Next]_vars /\ WF_vars(Run) /\ WF_vars(Answers)

-----------------------------------------------------------------------------
(* Properties *)

\* No child is left behind: a child that runs is the one the context names, with
\* both its pipes, so that the next directive reaches it.
OneChild == \A k \in running : hproc = k /\ rh = k /\ wh = k /\ wopen

\* Output is handed over in order and without a gap, from one call to the next: what
\* stdout_cb has seen are the first bytes written, and the others are in the pipe.
InOrder ==
    \A k \in Child :
        /\ got[k] = [n \in 1..Len(got[k]) |-> n]
        /\ {pipe[k][j] : j \in DOMAIN pipe[k]} \ {0} = (Len(got[k]) + 1)..written[k]
        /\ \A a, b \in DOMAIN pipe[k] :
              a < b /\ pipe[k][b] # 0 => pipe[k][a] < pipe[k][b]

\* Nothing will come any more: the child ended, or it is waiting for input itself.
Silent == \E k \in Child : rh = k /\ pipe[k] = <<>> /\ (k \in running => owed[k] = 0 /\ asked[k] = <<>>)

Over == pc = "idle" \/ (pc = "read" /\ Silent)

\* A call returns, or waits in ReadFile for a child that has nothing more to write:
\* since the parent holds that pipe open, nothing ends this wait.
Returns == pc # "idle" ~> Over
=============================================================================
