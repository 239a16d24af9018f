----------------------------- MODULE LaunchMsg -----------------------------
(***************************************************************************)
(* Legacy IPC: the messages of liblaunch (liblaunch.c) between a process   *)
(* and launchd's server (ipc.c).  Messages are packed into cells, which    *)
(* stream through a socket that takes a few at a time; descriptors travel  *)
(* beside the first of them.  The process has two sockets to launchd, the  *)
(* public one and the one inherited from its job, and several threads.     *)
(***************************************************************************)
EXTENDS Integers, Sequences, SequencesExt, FiniteSets

CONSTANTS
  Threads,
  Programs,   \* what the threads may ask for, in order
  Sockets,    \* the files of the job whose process this is
  Space,      \* cells a socket buffer takes
  RecvMax,    \* cells one recvmsg() returns
  Nobody

ASSUME LaunchMsgAssumption == {Space, RecvMax} \subseteq Nat \ {0} /\ Nobody \notin Threads

VARIABLES
  th,         \* the threads of the process
  lib,        \* globals->l: which, the buffers, lc_mtx
  wire,       \* the sockets, per channel and direction
  conn,       \* launchd's connections
  jobs,       \* label -> the files of its sockets
  open,       \* files that are open in launchd
  lost,       \* files launchd leaked
  dead,       \* the process died
  verdict,    \* history: what the server answered to a thread, and to what
  aborted     \* an assertion failed, or a message was refused as malformed

vars == <<th, lib, wire, conn, jobs, open, lost, dead, verdict, aborted>>

Channels == {"trusted", "public"}

-----------------------------------------------------------------------------
(* launch_data: trees, packed depth first.                                 *)

NoFd == "-1"

Str(s)   == [type |-> "string", val |-> s, els |-> <<>>]
Fd(f)    == [type |-> "fd", val |-> f, els |-> <<>>]
Errno(e) == [type |-> "errno", val |-> e, els |-> <<>>]
Dict(s)  == [type |-> "dict", val |-> "", els |-> s]
Array(s) == [type |-> "array", val |-> "", els |-> s]

RECURSIVE fd_set(_), revoked(_), pack_all(_, _), end_of(_, _)
RECURSIVE child_of(_, _, _), unpack(_, _, _)

\* launch_data_pack(): an element and the ones in it, in order
pack_all(els, i) ==
  IF i > Len(els) THEN <<>>
  ELSE <<[type |-> els[i].type, val |-> els[i].val, cnt |-> Len(els[i].els)]>>
         \o pack_all(els[i].els, 1) \o pack_all(els, i + 1)

pack_cells(d) == pack_all(<<d>>, 1)

\* fd_where: the descriptors that are sent along
sent_fds(cells) == SelectSeq(cells, LAMBDA c : c.type = "fd" /\ c.val # NoFd)

pack_fds(d) == [i \in 1..Len(sent_fds(pack_cells(d))) |-> sent_fds(pack_cells(d))[i].val]

\* launch_data_unpack(): data_offset after a cell with its elements, and of
\* its i-th element
end_of(cells, at) ==
  IF cells[at].cnt = 0 THEN at + 1 ELSE end_of(cells, child_of(cells, at, cells[at].cnt))

child_of(cells, at, i) ==
  IF i = 1 THEN at + 1 ELSE end_of(cells, child_of(cells, at, i - 1))

\* fdoffset: the descriptors that came are handed out in order
unpacked_val(cells, fds, at) ==
  LET c == cells[at]
      n == Cardinality({i \in 1..at : cells[i].type = "fd" /\ cells[i].val # NoFd})
  IN  IF c.type = "fd" /\ c.val # NoFd /\ n <= Len(fds) THEN fds[n] ELSE c.val

unpack(cells, fds, at) ==
  [type |-> cells[at].type, val |-> unpacked_val(cells, fds, at),
   els |-> [i \in 1..cells[at].cnt |-> unpack(cells, fds, child_of(cells, at, i))]]

\* launch_data_dict_lookup(): keys and values alternate
dict_lookup(d, key) ==
  LET at == {i \in 1..Len(d.els) : i % 2 = 1 /\ d.els[i].val = key}
  IN  IF d.type # "dict" \/ at = {} THEN Nobody
      ELSE d.els[1 + CHOOSE i \in at : \A k \in at : i <= k]

fd_set(d) ==
  (IF d.type = "fd" /\ d.val # NoFd THEN {d.val} ELSE {})
    \cup UNION {fd_set(d.els[i]) : i \in 1..Len(d.els)}

\* ipc_revoke_fds()
revoked(d) ==
  [type |-> d.type, val |-> IF d.type = "fd" THEN NoFd ELSE d.val,
   els |-> [i \in 1..Len(d.els) |-> revoked(d.els[i])]]

-----------------------------------------------------------------------------
(* Sending and receiving.                                                  *)

\* The cells of a message as they are sent: a header is written with the
\* first, and the descriptors
framed(d) ==
  LET c == pack_cells(d)
  IN  [i \in 1..Len(c) |-> [cell |-> c[i], len |-> Len(c), header |-> i = 1,
                            fds |-> IF i = 1 THEN pack_fds(d) ELSE <<>>]]

\* What the socket takes of the buffer: [line, left]; a buffer of which
\* nothing was taken has lost its header
msg_send(buf, line) ==
  LET room == Space - Len(line)
      n    == IF Len(buf) < room THEN Len(buf) ELSE room
  IN  [line |-> line \o SubSeq(buf, 1, n),
       left |-> IF n = 0 THEN [i \in 1..Len(buf) |-> [buf[i] EXCEPT !.header = FALSE]]
                ELSE SubSeq(buf, n + 1, Len(buf))]

\* (mutant) what the first recvmsg() returned is forgotten
msg_recv_anew(buf, line) ==
  LET n == IF Len(line) < RecvMax THEN Len(line) ELSE RecvMax
  IN  [buf |-> SubSeq(line, 1, n), line |-> SubSeq(line, n + 1, Len(line))]

msg_recv(buf, line) ==
  LET n == IF Len(line) < RecvMax THEN Len(line) ELSE RecvMax
  IN  [buf |-> buf \o SubSeq(line, 1, n), line |-> SubSeq(line, n + 1, Len(line))]

\* The receive buffer holds a whole message, or not the start of one
Complete(buf)  == buf # <<>> /\ buf[1].header /\ Len(buf) >= buf[1].len
Malformed(buf) == buf # <<>> /\ ~buf[1].header

\* recvfds: those of the cells received
held_fds(buf) ==
  LET first == {i \in 1..Len(buf) : buf[i].fds # <<>>}
  IN  IF first = {} THEN <<>> ELSE buf[CHOOSE i \in first : TRUE].fds

first_msg(buf) == unpack([i \in 1..Len(buf) |-> buf[i].cell], held_fds(buf), 1)
after_msg(buf) == SubSeq(buf, buf[1].len + 1, Len(buf))

-----------------------------------------------------------------------------
(* The server.                                                             *)

\* job_export(): the sockets of a job
job_export(label) ==
  Dict(<<Str("Sockets"), Array([i \in 1..Len(jobs[label]) |-> Fd(jobs[label][i])])>>)

\* (mutant) the server leaves all descriptors to the import
job_import_keep(d) ==
  [label |-> dict_lookup(d, "Label").val, files |-> pack_fds(d), close |-> {}]

\* jobmgr_import2(): socketgroup_setup() takes the descriptors over
job_import(d) ==
  LET label == dict_lookup(d, "Label").val
  IN  [label |-> label, files |-> pack_fds(d),
       close |-> IF label \in DOMAIN jobs THEN fd_set(d) ELSE {}]

\* ipc_readmsg(), ipc_readmsg2(): [resp, jobs, close].  The process's own job
\* is "self"; only check-in is allowed on its trusted socket
ipc_readmsg(ch, m) ==
  LET cmd  == IF m.type = "string" THEN m.val ELSE m.els[1].val
      same == [jobs |-> jobs, close |-> fd_set(m)]
      answer(r) == [resp |-> r] @@ same
  IN  CASE ch = "trusted" /\ cmd = "CheckIn"  -> answer(job_export("self"))
        [] ch = "trusted" /\ cmd # "CheckIn"  -> answer(Errno("EACCES"))
        [] ch = "public" /\ cmd = "SubmitJob" ->
             LET i == job_import(m.els[2])
             IN  [resp |-> Errno(IF i.label \in DOMAIN jobs THEN "EEXIST" ELSE "0"),
                  jobs |-> IF i.label \in DOMAIN jobs THEN jobs ELSE jobs @@ (i.label :> i.files),
                  close |-> i.close]
        [] ch = "public" /\ cmd = "GetJob"    ->
             answer(IF m.els[2].val \in DOMAIN jobs THEN revoked(job_export(m.els[2].val))
                    ELSE Errno("ESRCH"))
        [] ch = "public" /\ cmd = "RemoveJob" ->
             LET there == m.els[2].val \in DOMAIN jobs
             IN  [resp |-> Errno(IF there THEN "0" ELSE "ESRCH"),
                  jobs |-> [l \in DOMAIN jobs \ {m.els[2].val} |-> jobs[l]],
                  close |-> IF there THEN ToSet(jobs[m.els[2].val]) ELSE {}]
        [] OTHER -> answer(Errno("ENOSYS"))

Closed == [open |-> FALSE, recv |-> <<>>, send |-> <<>>, writing |-> FALSE]

\* ipc_close(), launchd_close(): descriptors received with a message that is
\* not complete are not closed
ipc_close(ch) ==
  /\ conn' = [conn EXCEPT ![ch] = Closed]
  /\ lost' = lost \cup ToSet(held_fds(conn[ch].recv))

\* (mutant) the rest of a reply is not waited for
ipc_reply_once(ch, resp) ==
  LET s == msg_send(framed(resp), wire[ch].down)
  IN  [line |-> s.line, send |-> s.left, writing |-> FALSE]

\* ipc_readmsg(): the reply is sent, the rest of it when the socket has room
ipc_reply(ch, resp) ==
  LET s == msg_send(framed(resp), wire[ch].down)
  IN  [line |-> s.line, send |-> s.left, writing |-> s.left # <<>>]

Readable(ch) == conn[ch].open /\ wire[ch].up # <<>>

AtEof(ch) == conn[ch].open /\ dead /\ wire[ch].up = <<>>
Writable(ch) == conn[ch].open /\ conn[ch].writing /\ (dead \/ Len(wire[ch].down) < Space)

\* ipc_callback(), EVFILT_READ: recvmsg() and every message that is complete.
\* (A process has one request under way: never two in one call.)
ipc_read(ch) ==
  LET r   == msg_recv(conn[ch].recv, wire[ch].up)
      got == Complete(r.buf)
      a   == ipc_readmsg(ch, first_msg(r.buf))
      out == ipc_reply(ch, a.resp)
  IN  /\ Readable(ch) /\ ~aborted
      /\ open' = (open \cup ToSet(held_fds(SubSeq(r.buf, Len(conn[ch].recv) + 1, Len(r.buf)))))
                   \ (IF got THEN a.close ELSE {})
      /\ IF got /\ ~dead
         THEN /\ aborted' = (conn[ch].send # <<>>)
              /\ jobs' = a.jobs
              /\ wire' = [wire EXCEPT ![ch].up = r.line, ![ch].down = out.line]
              /\ conn' = [conn EXCEPT ![ch] = [open |-> TRUE, recv |-> after_msg(r.buf),
                                               send |-> out.send, writing |-> out.writing]]
              /\ verdict' = [verdict EXCEPT ![lib.mtx] = [req |-> first_msg(r.buf), resp |-> a.resp]]
              /\ UNCHANGED lost
         ELSE IF got THEN  \* launchd_msg_send() fails: the peer is gone
              /\ jobs' = a.jobs
              /\ wire' = [wire EXCEPT ![ch].up = r.line]
              /\ conn' = [conn EXCEPT ![ch] = Closed]
              /\ UNCHANGED <<lost, verdict, aborted>>
         ELSE /\ aborted' = Malformed(r.buf)
              /\ wire' = [wire EXCEPT ![ch].up = r.line]
              /\ conn' = [conn EXCEPT ![ch].recv = r.buf]
              /\ UNCHANGED <<jobs, lost, verdict>>
      /\ UNCHANGED <<th, lib, dead>>

\* EVFILT_READ at the end of the stream
ipc_read_eof(ch) ==
  /\ AtEof(ch)
  /\ ipc_close(ch)
  /\ UNCHANGED <<th, lib, wire, jobs, open, dead, verdict, aborted>>

\* EVFILT_WRITE: the rest of a reply
ipc_write(ch) ==
  /\ Writable(ch)
  /\ \/ /\ dead /\ ipc_close(ch) /\ UNCHANGED wire
     \/ /\ ~dead
        /\ LET s == msg_send(conn[ch].send, wire[ch].down)
           IN  /\ wire' = [wire EXCEPT ![ch].down = s.line]
               /\ conn' = [conn EXCEPT ![ch].send = s.left, ![ch].writing = s.left # <<>>]
        /\ UNCHANGED lost
  /\ UNCHANGED <<th, lib, jobs, open, dead, verdict, aborted>>

-----------------------------------------------------------------------------
(* The process: launch_msg() in each thread.                               *)

Idle == [pc |-> "idle", todo |-> <<>>, fd2use |-> "public", resp |-> Nobody]

channel_for(d) == IF d.type = "string" /\ d.val = "CheckIn" THEN "trusted" ELSE "public"

\* launch_msg_internal() up to the lock: which socket
Ask(t) ==
  /\ ~dead /\ th[t].pc = "idle" /\ th[t].todo # <<>>
  /\ lib' = [lib EXCEPT !.which = channel_for(Head(th[t].todo))]
  /\ th' = [th EXCEPT ![t].pc = "lock", ![t].fd2use = channel_for(Head(th[t].todo)),
                      ![t].resp = Nobody]
  /\ UNCHANGED <<wire, conn, jobs, open, lost, dead, verdict, aborted>>

\* The lock, and launchd_msg_send() of the request
Lock(t) ==
  /\ ~dead /\ th[t].pc = "lock" /\ lib.mtx = Nobody
  /\ LET s == msg_send(framed(Head(th[t].todo)), wire[lib.which].up)
     IN  /\ wire' = [wire EXCEPT ![lib.which].up = s.line]
         /\ lib' = [lib EXCEPT !.mtx = t, !.send = s.left]
         /\ th' = [th EXCEPT ![t].pc = IF s.left = <<>> THEN "recv" ELSE "send"]
  /\ aborted' = (lib.send # <<>>)
  /\ UNCHANGED <<conn, jobs, open, lost, dead, verdict>>

\* launchd_msg_send(NULL) until everything is sent
SendRest(t) ==
  /\ ~dead /\ th[t].pc = "send" /\ Len(wire[lib.which].up) < Space
  /\ LET s == msg_send(lib.send, wire[lib.which].up)
     IN  /\ wire' = [wire EXCEPT ![lib.which].up = s.line]
         /\ lib' = [lib EXCEPT !.send = s.left]
         /\ th' = [th EXCEPT ![t].pc = IF s.left = <<>> THEN "recv" ELSE "send"]
  /\ UNCHANGED <<conn, jobs, open, lost, dead, verdict, aborted>>

\* launchd_msg_recv(), select() when there is nothing or not all of it, and
\* the unlock when the response is there
Recv(t) ==
  /\ ~dead /\ th[t].pc = "recv"
  /\ LET r   == msg_recv(lib.recv, wire[lib.which].down)
         got == Complete(r.buf)
     IN  /\ wire' = [wire EXCEPT ![lib.which].down = r.line]
         /\ lib' = [lib EXCEPT !.recv = IF got THEN after_msg(r.buf) ELSE r.buf,
                               !.mtx = IF got THEN Nobody ELSE @]
         /\ th' = [th EXCEPT ![t].pc = IF got THEN "answered" ELSE "select",
                             ![t].resp = IF got THEN first_msg(r.buf) ELSE Nobody]
         /\ aborted' = (aborted \/ Malformed(r.buf))
  /\ UNCHANGED <<conn, jobs, open, lost, dead, verdict>>

Select(t) ==
  /\ ~dead /\ th[t].pc = "select" /\ wire[th[t].fd2use].down # <<>>
  /\ th' = [th EXCEPT ![t].pc = "recv"]
  /\ UNCHANGED <<lib, wire, conn, jobs, open, lost, dead, verdict, aborted>>

\* launch_msg() returns to its caller
Return(t) ==
  /\ ~dead /\ th[t].pc = "answered"
  /\ th' = [th EXCEPT ![t].pc = "idle", ![t].todo = Tail(@)]
  /\ verdict' = [verdict EXCEPT ![t] = Nobody]
  /\ UNCHANGED <<lib, wire, conn, jobs, open, lost, dead, aborted>>

\* The process dies: its sockets are closed
Die ==
  /\ ~dead /\ dead' = TRUE
  /\ wire' = [ch \in Channels |-> [wire[ch] EXCEPT !.down = <<>>]]
  /\ UNCHANGED <<th, lib, conn, jobs, open, lost, verdict, aborted>>

Init ==
  /\ \E p \in Programs : th = [t \in Threads |-> [Idle EXCEPT !.todo = p[t]]]
  /\ lib = [which |-> "public", mtx |-> Nobody, send |-> <<>>, recv |-> <<>>]
  /\ wire = [ch \in Channels |-> [up |-> <<>>, down |-> <<>>]]
  /\ conn = [ch \in Channels |-> [Closed EXCEPT !.open = TRUE]]
  /\ jobs = "self" :> Sockets
  /\ open = ToSet(Sockets) /\ lost = {}
  /\ dead = FALSE /\ verdict = [t \in Threads |-> Nobody] /\ aborted = FALSE

Next ==
  \/ \E t \in Threads :
       Ask(t) \/ Lock(t) \/ SendRest(t) \/ Recv(t) \/ Select(t) \/ Return(t)
  \/ \E ch \in Channels : ipc_read(ch) \/ ipc_read_eof(ch) \/ ipc_write(ch)
  \/ Die

Spec == Init /\ [][Next]_vars

\* A thread that is not blocked
Runnable(t) ==
  /\ ~dead
  /\ \/ th[t].pc = "idle" /\ th[t].todo # <<>>
     \/ th[t].pc = "lock" /\ lib.mtx = Nobody
     \/ th[t].pc = "send" /\ Len(wire[lib.which].up) < Space
     \/ th[t].pc \in {"recv", "answered"}
     \/ th[t].pc = "select" /\ wire[th[t].fd2use].down # <<>>

\* Threads are scheduled, the lock is handed on, launchd's run loop serves
\* its connections.  Programs are finite and every step gets further, so
\* fairness of a step says that it does not stay enabled for ever.
FairSpec ==
  /\ Spec
  /\ \A t \in Threads : []<>~Runnable(t)
  /\ \A ch \in Channels : []<>~Readable(ch) /\ []<>~AtEof(ch) /\ []<>~Writable(ch)

-----------------------------------------------------------------------------
(* Properties.                                                             *)

\* The values the variables take.
TypeOK ==
  /\ \A t \in Threads : th[t].pc \in {"idle", "lock", "send", "recv", "select", "answered"}
  /\ lib.which \in Channels /\ lib.mtx \in Threads \cup {Nobody}
  /\ \A ch \in Channels : /\ Len(wire[ch].up) <= Space /\ Len(wire[ch].down) <= Space
                          /\ conn[ch].writing => conn[ch].open /\ conn[ch].send # <<>>
  /\ lost \subseteq open

\* However the messages are cut up by the sockets, no side finds a message
\* without its header (EBADRPC) or has to send while an earlier message is
\* not yet sent (the assertion in launchd_msg_send()).
NeverConfused == ~aborted

\* A thread gets the answer the server gave to its own request, and not one
\* to an equal or another request of a thread beside it, with the descriptors
\* that belong to it and in the right places: a check-in the sockets of the
\* job, a listing none of them, a submission its own verdict.
AnswerFits ==
  \A t \in Threads :
    th[t].pc = "answered" =>
      /\ verdict[t] = [req |-> Head(th[t].todo), resp |-> th[t].resp]
      /\ LET req == Head(th[t].todo)
         IN  IF req.type = "string" THEN th[t].resp = job_export("self")
             ELSE req.els[1].val = "GetJob" => fd_set(th[t].resp) = {}

\* Messages arrive whole, in order and at the one they are for.
MessagesWhole == TypeOK /\ NeverConfused /\ AnswerFits

\* The descriptors of a job stay open while the job has them, although the
\* server closes what came with a request (ipc_close_fds(),
\* socketgroup_setup(), ipc_revoke_fds()).
SocketsKept == \A l \in DOMAIN jobs : ToSet(jobs[l]) \subseteq open

\* launchd keeps no descriptor that no job owns, no connection is about to
\* be given, and no broken connection left behind.
NoLeak ==
  open \subseteq UNION {ToSet(jobs[l]) : l \in DOMAIN jobs} \cup lost
                   \cup UNION {ToSet(held_fds(conn[ch].recv)) : ch \in Channels}

\* launchd has exactly the descriptors somebody owns.
DescriptorsOwned == SocketsKept /\ NoLeak

\* Every request is answered, unless the process dies.
Answered == \A t \in Threads : (th[t].pc = "lock") ~> (th[t].pc = "answered" \/ dead)

\* The connections of a process that died are closed.
GoneClosed == \A ch \in Channels : dead ~> ~conn[ch].open

\* Every exchange ends, with an answer or with the connection.
ExchangesEnd == Answered /\ GoneClosed
=============================================================================
