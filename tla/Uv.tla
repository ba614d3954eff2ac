--------------------------------- MODULE Uv ---------------------------------
(***************************************************************************)
(* The download of uv/uv.c: libcurl's multi interface driven by a libuv    *)
(* loop.  libcurl says through handle_socket which sockets to watch and    *)
(* through start_timeout when to call it again; the loop calls it through  *)
(* curl_perform and on_timeout.  Each watched socket has a context, freed  *)
(* in a later callback of the loop; freed memory is allocated again.       *)
(*                                                                         *)
(* curl_perform takes the poll handle for the context that contains it and *)
(* so reads the descriptor from memory that was never written: libcurl may *)
(* be told of the right socket, of another one or of none.  In each case   *)
(* it acts on what it finds, which is any of the steps below.              *)
(***************************************************************************)
EXTENDS Integers, FiniteSets

CONSTANTS Sock,      \* socket numbers
          MaxContext \* contexts in memory at a time

VARIABLES pc,        \* "start", "loop", "curl" (inside libcurl), "info", "done" or "abort"
          timeout,   \* whether the timer is active
          context,   \* of each context: its state and its socket
          socketp,   \* the context libcurl keeps for a socket, 0 for NULL
          download   \* "none", "running", "completed", "reported"

vars == <<pc, timeout, context, socketp, download>>

Context == 1..MaxContext
Polled == {c \in Context : context[c].state = "polled"}
Closing == {c \in Context : context[c].state = "closing"}
Freed == [state |-> "freed", fd |-> 0]

UvInit ==
    /\ timeout = FALSE /\ context = [c \in Context |-> Freed]
    /\ socketp = [s \in Sock |-> 0] /\ download = "none"

Init == pc = "start" /\ UvInit

-----------------------------------------------------------------------------
(* The loop. *)

\* test_uv_main: the file cannot be opened, or adding the download makes libcurl ask
\* for a first timeout.
add_download ==
    /\ pc = "start"
    /\ \/ UNCHANGED <<timeout, download>>
       \/ download' = "running" /\ timeout' = TRUE
    /\ pc' = "loop"
    /\ UNCHANGED <<context, socketp>>

\* A socket is ready, or its poll failed.
curl_perform ==
    /\ pc = "loop" /\ Polled # {}
    /\ pc' = "curl" /\ timeout' = FALSE
    /\ UNCHANGED <<context, socketp, download>>

\* The timer does not repeat.
on_timeout ==
    /\ pc = "loop" /\ timeout
    /\ pc' = "curl" /\ timeout' = FALSE
    /\ UNCHANGED <<context, socketp, download>>

\* An iteration of the loop ends with the callbacks of all handles that were closed.
curl_close_cb ==
    /\ pc = "loop" /\ Closing # {}
    /\ context' = [c \in Context |-> IF c \in Closing THEN Freed ELSE context[c]]
    /\ UNCHANGED <<pc, timeout, socketp, download>>

\* uv_run() returns when no handle is active or closing, then the multi handle is
\* cleaned up.
uv_run_returns ==
    /\ pc = "loop" /\ ~timeout /\ Polled = {} /\ Closing = {}
    /\ pc' = "done"
    /\ UNCHANGED <<timeout, context, socketp, download>>

-----------------------------------------------------------------------------
(* The callbacks of libcurl. *)

\* Also for -1, which asks for the timer to be deleted.
start_timeout ==
    /\ pc = "curl"
    /\ timeout' = TRUE
    /\ UNCHANGED <<pc, context, socketp, download>>

AssignsNothing(s, c) == socketp

\* curl_multi_assign()
Assigns(s, c) == [socketp EXCEPT ![s] = c]

create_curl_context(s, c) ==
    /\ c \in Context \ (Polled \cup Closing)
    /\ context' = [context EXCEPT ![c] = [state |-> "polled", fd |-> s]]
    /\ socketp' = Assigns(s, c)

Abort == pc' = "abort" /\ UNCHANGED <<context, socketp>>

\* CURL_POLL_IN or CURL_POLL_OUT: the context of the socket, or a new one, polls it.
handle_socket_poll(s) ==
    /\ pc = "curl" /\ download = "running"
    /\ \/ socketp[s] # 0 /\ UNCHANGED <<pc, context, socketp>>
       \/ socketp[s] = 0 /\ UNCHANGED pc /\ \E c \in Context : create_curl_context(s, c)
       \/ socketp[s] = 0 /\ Abort         \* assert(r == 0)
    /\ UNCHANGED <<timeout, download>>

\* uv_poll_stop() and uv_close()
destroy_curl_context(s) ==
    context' = [context EXCEPT ![socketp[s]].state = "closing"]

\* CURL_POLL_REMOVE, after which the socket may be closed and its number used again.
handle_socket_remove(s) ==
    /\ pc = "curl" /\ socketp[s] # 0
    /\ destroy_curl_context(s)
    /\ socketp' = Assigns(s, 0)
    /\ UNCHANGED <<pc, timeout, download>>

\* CURL_POLL_INOUT is not handled.
handle_socket_default ==
    /\ pc = "curl" /\ download = "running"
    /\ Abort /\ UNCHANGED <<timeout, download>>

\* curl_multi_socket_action() returns; a completed transfer has given up its sockets.
socket_action_returns ==
    /\ pc = "curl"
    /\ \/ UNCHANGED download
       \/ /\ download = "running" /\ \A s \in Sock : socketp[s] = 0
          /\ download' = "completed"
    /\ pc' = "info"
    /\ UNCHANGED <<timeout, context, socketp>>

\* The handle of a completed download is removed and cleaned up.
check_multi_info ==
    /\ pc = "info" /\ pc' = "loop"
    /\ download' = IF download = "completed" THEN "reported" ELSE download
    /\ UNCHANGED <<timeout, context, socketp>>

Loop == \/ add_download \/ curl_perform \/ on_timeout \/ curl_close_cb \/ uv_run_returns \/ check_multi_info
Libcurl == \/ start_timeout \/ handle_socket_default \/ socket_action_returns
           \/ \E s \in Sock : handle_socket_poll(s) \/ handle_socket_remove(s)
Next == Loop \/ Libcurl

\* Calls of libcurl return, and every iteration of the loop comes to the closed handles.
Fairness == WF_vars(socket_action_returns \/ check_multi_info) /\ SF_vars(curl_close_cb)

Spec == Init /\ [][Next]_vars /\ Fairness

-----------------------------------------------------------------------------
(* Properties *)

\* A context is polled exactly as long as libcurl keeps it for its socket: no two
\* handles poll one socket number, although numbers and memory are used again while
\* old contexts wait to be closed, and libcurl never holds a context that is gone.
Owned ==
    /\ \A s \in Sock : socketp[s] # 0 => context[socketp[s]] = [state |-> "polled", fd |-> s]
    /\ \A c \in Polled : socketp[context[c].fd] = c

\* When the loop has returned no context is left.
NoneAtEnd == pc = "done" => \A c \in Context : context[c] = Freed

\* The contexts of sockets that were given up are freed.
Released == Closing # {} ~> Closing = {} \/ pc = "abort"
=============================================================================
