------------------------------ MODULE MCServers -----------------------------
(***************************************************************************)
(* The tests of TcpServers and of Processes for TLC: one of them runs in a *)
(* behaviour.                                                              *)
(***************************************************************************)
EXTENDS TcpServers, Processes

vars == <<tcpVars, processVars>>

Init == TcpInit /\ ProcessInit /\ (test = "none" <=> program # "none")

Tcp(A) == A /\ UNCHANGED processVars
Process(A) == A /\ UNCHANGED tcpVars

Next == Tcp(TcpNext) \/ Process(ProcessNext)

\* The program runs, and its surroundings answer: the network takes output, the child of
\* the dialogue handles its input, the loop closes handles, and a client that has
\* connected to the first server, which reads with blocking calls, sends a request or
\* hangs up at last.  Only one test runs in a behaviour, so one condition does for all.
Program == \/ Tcp(SideStep(Side!Serve) \/ XhsdkStep(Xhsdk!Serve) \/ EpollStep(Hello!Serve))
           \/ Process(\/ PipeStep(Pipe!Run) \/ H2Step(H2!Run) \/ InterStep(Inter!Run)
                      \/ CurlStep(Curl!socket_action_returns \/ Curl!check_multi_info))

Fairness ==
    /\ WF_vars(Program)
    /\ WF_vars(Process(H2Step(H2!flush) \/ InterStep(Inter!Answers)))
    /\ SF_vars(Process(CurlStep(Curl!curl_close_cb)))
    /\ \A c \in Conn :
          WF_vars(Tcp(SideStep(sent[c] = 0 /\ (Side!send(c) \/ Side!hangup(c))
                                 /\ UNCHANGED <<pc, clis, rfds, wfds, i>>)))

FairSpec == Init /\ [][Next]_vars /\ Fairness
=============================================================================
