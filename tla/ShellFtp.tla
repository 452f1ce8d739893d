-------------------------------- MODULE ShellFtp --------------------------------
(***************************************************************************)
(* The link-level shell and file transfer (ll_shell_ftp.c, com_util.c): a  *)
(* server on a box, and one client after the other on a host next to it,   *)
(* each putting files or working in the server's shell. Chunks of files    *)
(* and the output of the shell are numbered, sent up to three times, and   *)
(* given up then; the sender waits meanwhile, and drops what is not an     *)
(* answer. What is typed is sent once.                                     *)
(***************************************************************************)
EXTENDS Integers, Sequences, FiniteSets

CONSTANTS Tries,      \* sends of one chunk: 3
          MaxErrors,  \* chunks given up in a row: 10
          Scenarios   \* what Init chooses from

Mode    == {"put", "shell", "passive"}   \* passive takes any number (-r)
Session == [mode : Mode, files : Seq(Nat)]  \* how many chunks each file has
Scenario == [sessions : Seq(Session), outputs : Nat, commands : Nat,
             losses : Nat, late : Nat, full : Nat]

ASSUME ConstAssumption ==
  /\ Tries \in Nat \ {0} /\ MaxErrors \in Nat
  /\ Scenarios \subseteq Scenario
  /\ \A s \in Scenarios : s.sessions # <<>>

VARIABLES
  scenario,
  session,    \* the client at work: its place in scenario.sessions
  client,     \* its state, see Fresh
  server,     \* the server's, see Init
  toServer, toClient,   \* frames under way, in order
  disk,       \* what the server wrote, by file: chunks, or parts of one
  printed,    \* what the client at work wrote on its terminal
  left,       \* events that may still happen, by kind
  \* history: types of messages the server did not get, and how often anything
  \* was lost, late, or refused for lack of room
  missed, trouble

vars == <<scenario, session, client, server, toServer, toClient, disk, printed, left,
          missed, trouble>>

Reply == {"recv_ok_msg", "recv_err_msg", "recv_err_stop_msg"}
Junk  == 0   \* what is printed of a message that is no output
NoFile == <<0, 0>>

Msg(type, seq, data) == [type |-> type, seq |-> seq, data |-> data]
Working == scenario.sessions[session]
FileNames == {<<s, i>> : s \in DOMAIN scenario.sessions,
                         i \in UNION {DOMAIN scenario.sessions[t].files :
                                        t \in DOMAIN scenario.sessions}}

(* static variables of a new process, and where each mode begins.          *)
FirstStep(mode) == IF mode = "put" THEN "file" ELSE "start"
Fresh(mode) == [pc |-> FirstStep(mode), file |-> 1, seq |-> 1, tries |-> 0, errors |-> 0,
                recv |-> 1]

Init ==
  /\ scenario \in Scenarios
  /\ session = 1
  /\ client = Fresh(scenario.sessions[1].mode)
  /\ server = [pc |-> "loop", known |-> FALSE, state |-> "nominal", seq |-> 1, tries |-> 0,
               receiving |-> FALSE, recv |-> 0, fd |-> NoFile, out |-> <<>>]
  /\ toServer = <<>> /\ toClient = <<>>
  /\ disk = [f \in FileNames |-> <<>>]
  /\ printed = <<>>
  /\ left = [k \in {"outputs", "commands", "losses", "late", "full"} |-> scenario[k]]
  /\ missed = {} /\ trouble = 0

Spend(k) == left[k] > 0 /\ left' = [left EXCEPT ![k] = @ - 1]

-----------------------------------------------------------------------------
(* The client: put_file and transfer_file.                                 *)

PutFile ==
  /\ client.pc = "file"
  /\ IF client.file > Len(Working.files)
     THEN client' = [client EXCEPT !.pc = "done"] /\ UNCHANGED toServer
     ELSE /\ toServer' = Append(toServer, Msg("put_name_msg", 0, <<session, client.file>>))
          /\ client' = [client EXCEPT !.pc = "chunk", !.seq = 1, !.tries = 0, !.errors = 0]
  /\ UNCHANGED <<scenario, session, server, toClient, disk, printed, left, missed, trouble>>

SendChunk ==
  /\ client.pc = "chunk"
  /\ IF client.seq > Working.files[client.file]
     THEN /\ toServer' = Append(toServer, Msg("transfer_end_msg", 0, Junk))
          /\ client' = [client EXCEPT !.pc = "file", !.file = @ + 1]
     ELSE /\ toServer' = Append(toServer, Msg("transfer_cont_msg", client.seq,
                                              <<session, client.file, client.seq>>))
          /\ client' = [client EXCEPT !.pc = "answer"]
  /\ UNCHANGED <<scenario, session, server, toClient, disk, printed, left, missed, trouble>>

(* com_util_start_client_shell. A passive client does not wait.            *)
StartShell ==
  /\ client.pc = "start"
  /\ toServer' = Append(toServer, Msg("start_shell_msg", 1, Junk))
  /\ client' = [client EXCEPT !.pc = IF Working.mode = "passive" THEN "shell" ELSE "answer"]
  /\ UNCHANGED <<scenario, session, server, toClient, disk, printed, left, missed, trouble>>

(* After the answer waited for, or Tries attempts. The shell takes itself  *)
(* for connected then; a file goes on with its next chunk, but not after   *)
(* too many in a row, and the next file is put. (RetryForever would not    *)
(* know when to stop.)                                                     *)
Again(c) == [c EXCEPT !.pc = IF Working.mode = "put" THEN "chunk" ELSE "start", !.tries = @ + 1]
NextChunk(c, n) == [c EXCEPT !.pc = "chunk", !.seq = @ + 1, !.tries = 0, !.errors = n]
RetryForever(c) == [Again(c) EXCEPT !.tries = 0]
GiveUp(c) == IF Working.mode # "put" THEN [c EXCEPT !.pc = "shell"]
             ELSE IF c.errors = MaxErrors THEN [c EXCEPT !.pc = "file", !.file = @ + 1]
             ELSE NextChunk(c, c.errors + 1)
UpToTries(c) == IF c.tries + 1 < Tries THEN Again(c) ELSE GiveUp(c)
Failed(c) == UpToTries(c)
Answered(c) == IF Working.mode = "put" THEN NextChunk(c, 0) ELSE [c EXCEPT !.pc = "shell"]

(* recv_seq_message: what is no answer is skipped, an answer to anything   *)
(* else is as bad as none.                                                 *)
IsFor(m, seq) == m.type = "recv_ok_msg" /\ m.seq = seq
ReadAnswer ==
  /\ client.pc = "answer" /\ toClient # <<>>
  /\ LET m == Head(toClient) IN
       client' = IF m.type \notin Reply THEN client
                 ELSE IF IsFor(m, client.seq) THEN Answered(client) ELSE Failed(client)
  /\ toClient' = Tail(toClient)
  /\ UNCHANGED <<scenario, session, server, toServer, disk, printed, left, missed, trouble>>

(* The timeout starts again with every frame, also one that is not for us: *)
(* it may come when nothing else does, and on a busy network need not.     *)
NothingComes == toServer = <<>> /\ toClient = <<>> /\ server.pc = "loop"
NoAnswer ==
  /\ client.pc = "answer" /\ NothingComes
  /\ client' = Failed(client)
  /\ UNCHANGED <<scenario, session, server, toServer, toClient, disk, printed, left, missed,
                 trouble>>

NoAnswerYet ==
  /\ client.pc = "answer" /\ toClient = <<>> /\ ~ NothingComes
  /\ Spend("late") /\ trouble' = trouble + 1
  /\ client' = Failed(client)
  /\ UNCHANGED <<scenario, session, server, toServer, toClient, disk, printed, missed>>

(* main of a shell client: whatever comes is printed if its first word is  *)
(* the number expected. That of an answer to start_shell_msg is a length,  *)
(* 1, or -3 for the passive client. (AnyNumber would not look.)            *)
FirstWord(m) == IF m.type = "shell_response_msg" THEN m.seq
                ELSE IF Working.mode = "passive" THEN -3 ELSE 1
AnyNumber(n) == TRUE
Expected(n) == Working.mode = "passive" \/ n = client.recv
Prints(n) == Expected(n)
ReadOutput ==
  /\ client.pc = "shell" /\ toClient # <<>>
  /\ LET m == Head(toClient) n == FirstWord(m) IN
       IF Prints(n)
       THEN /\ printed' = Append(printed, m.data)
            /\ client' = [client EXCEPT !.recv = @ + 1]
            /\ toServer' = Append(toServer, Msg("recv_ok_msg", n, m.data))
       ELSE UNCHANGED <<printed, client, toServer>>
  /\ toClient' = Tail(toClient)
  /\ UNCHANGED <<scenario, session, server, disk, left, missed, trouble>>

(* do_read *)
Type ==
  /\ client.pc = "shell" /\ Spend("commands")
  /\ toServer' = Append(toServer, Msg("shell_cmd_msg", 0, Junk))
  /\ UNCHANGED <<scenario, session, client, server, toClient, disk, printed, missed, trouble>>

(* The user ends a shell at any time, and starts the next client when the  *)
(* server has dealt with what the last one sent.                           *)
NextClient ==
  /\ client.pc \in {"shell", "done"} /\ session < Len(scenario.sessions)
  /\ toServer = <<>> /\ server.pc = "loop"
  /\ session' = session + 1
  /\ client' = Fresh(scenario.sessions[session + 1].mode)
  /\ toClient' = <<>> /\ printed' = <<>>
  /\ UNCHANGED <<scenario, server, toServer, disk, left, missed, trouble>>

-----------------------------------------------------------------------------
(* The server: com_util_process_message, for a frame with that type.       *)

(* start_receiving_file, which begins to count anew (CountOn would not).   *)
CountOn(sv) == sv.recv
CountAnew(sv) == 1
FirstNumber(sv) == CountAnew(sv)
StartReceivingFile(sv, m) ==
  [sv EXCEPT !.state = "receiving_file", !.receiving = TRUE, !.fd = m.data,
             !.recv = FirstNumber(sv)]

(* end_receiving_file *)
EndReceivingFile(sv) ==
  IF sv.receiving THEN [sv EXCEPT !.receiving = FALSE, !.state = "nominal"] ELSE sv

(* start_shell_msg does so for the output of the shell.                    *)
SeqOn(sv) == sv
SeqAnew(sv) == [sv EXCEPT !.seq = 1]
StartCounting(sv) == SeqAnew(sv)

ProcessOther ==
  /\ server.pc = "loop" /\ toServer # <<>>
  /\ LET m == Head(toServer) sv == [server EXCEPT !.known = TRUE] IN
       /\ m.type # "transfer_cont_msg"
       /\ server' = CASE m.type = "put_name_msg"     -> StartReceivingFile(sv, m)
                      [] m.type = "transfer_end_msg" -> EndReceivingFile(sv)
                      [] m.type = "start_shell_msg"  -> StartCounting(sv)
                      [] OTHER                       -> sv
       /\ disk' = IF m.type = "put_name_msg" THEN [disk EXCEPT ![m.data] = <<>>] ELSE disk
       /\ toClient' = IF m.type = "start_shell_msg"
                      THEN Append(toClient, Msg("recv_ok_msg", 1, Junk)) ELSE toClient
  /\ toServer' = Tail(toServer)
  /\ UNCHANGED <<scenario, session, client, printed, left, missed, trouble>>

(* continue_receiving_file. AnyChunk would not look at the number.         *)
AnyChunk(sv, m) == TRUE
NextOne(sv, m) == m.seq = sv.recv
Wanted(sv, m) == NextOne(sv, m)
ContinueReceivingFile ==
  /\ server.pc = "loop" /\ toServer # <<>> /\ Head(toServer).type = "transfer_cont_msg"
  /\ LET m == Head(toServer) sv == [server EXCEPT !.known = TRUE] IN
       IF ~ sv.receiving THEN server' = sv /\ UNCHANGED <<toClient, disk>>
       ELSE IF Wanted(sv, m)
       THEN /\ server' = [sv EXCEPT !.recv = @ + 1]
            /\ disk' = [disk EXCEPT ![sv.fd] = Append(@, m.data)]
            /\ toClient' = Append(toClient, Msg("recv_ok_msg", sv.recv, Junk))
       ELSE /\ server' = sv /\ disk' = disk
            /\ toClient' = Append(toClient, Msg("recv_err_msg", 0, Junk))
  /\ toServer' = Tail(toServer)
  /\ UNCHANGED <<scenario, session, client, printed, left, missed, trouble>>

(* No room for the chunk, or only for a part of it, which stays.           *)
PartOf(d) == Append(d, "part")
DiskFull ==
  /\ server.pc = "loop" /\ toServer # <<>> /\ Head(toServer).type = "transfer_cont_msg"
  /\ server.receiving /\ Wanted(server, Head(toServer))
  /\ Spend("full") /\ trouble' = trouble + 1
  /\ server' = [server EXCEPT !.known = TRUE]
  /\ \/ /\ UNCHANGED disk
        /\ toClient' = Append(toClient, Msg("recv_err_stop_msg", 0, Junk))
     \/ /\ disk' = [disk EXCEPT ![server.fd] = Append(@, PartOf(Head(toServer).data))]
        /\ toClient' = Append(toClient, Msg("recv_err_msg", 0, Junk))
  /\ toServer' = Tail(toServer)
  /\ UNCHANGED <<scenario, session, client, printed, missed>>

(* The shell writes something; outputs are numbered as written.            *)
Outputs == scenario.outputs - left["outputs"]
ShellWrites ==
  /\ Spend("outputs")
  /\ server' = [server EXCEPT !.out = Append(@, Outputs + 1)]
  /\ UNCHANGED <<scenario, session, client, toServer, toClient, disk, printed, missed, trouble>>

(* read_and_fwd_shell_output: what there is nobody to send to is gone. The *)
(* count of a file's chunks is not that of the shell's output.             *)
ForwardOutput ==
  /\ server.pc = "loop" /\ server.out # <<>>
  /\ IF ~ server.known
     THEN server' = [server EXCEPT !.out = Tail(@)] /\ UNCHANGED toClient
     ELSE LET n == IF server.state = "shell" THEN server.seq ELSE 1 IN
          /\ server' = [server EXCEPT !.pc = "answer", !.state = "shell", !.seq = n, !.tries = 0]
          /\ toClient' = Append(toClient, Msg("shell_response_msg", n, Head(server.out)))
  /\ UNCHANGED <<scenario, session, client, toServer, disk, printed, left, missed, trouble>>

(* verified_send_message: answered, or given up; else sent again.          *)
Ended(sv) == [sv EXCEPT !.pc = "loop", !.out = Tail(@), !.seq = @ + 1]
SendAgain == IF server.tries + 1 < Tries
             THEN /\ server' = [server EXCEPT !.tries = @ + 1]
                  /\ toClient' = Append(toClient, Msg("shell_response_msg", server.seq,
                                                      Head(server.out)))
             ELSE server' = Ended(server) /\ UNCHANGED toClient

(* A length that is not the one sent tells an answer to something else,    *)
(* unless it happens to be the same.                                       *)
ReadAcknowledgement ==
  /\ server.pc = "answer" /\ toServer # <<>>
  /\ LET m == Head(toServer) IN
       IF m.type \notin Reply
       THEN /\ missed' = missed \cup {m.type} /\ trouble' = trouble + 1
            /\ UNCHANGED <<server, toClient>>
       ELSE /\ \/ IsFor(m, server.seq) /\ server' = Ended(server) /\ UNCHANGED toClient
               \/ ~ (IsFor(m, server.seq) /\ m.data = Head(server.out)) /\ SendAgain
            /\ UNCHANGED <<missed, trouble>>
  /\ toServer' = Tail(toServer)
  /\ UNCHANGED <<scenario, session, client, disk, printed, left>>

Unanswered == toServer = <<>> /\ (toClient = <<>> \/ client.pc \notin {"answer", "shell"})
NoAcknowledgement ==
  /\ server.pc = "answer" /\ Unanswered
  /\ SendAgain
  /\ UNCHANGED <<scenario, session, client, toServer, disk, printed, left, missed, trouble>>

NoAcknowledgementYet ==
  /\ server.pc = "answer" /\ toServer = <<>> /\ ~ Unanswered
  /\ Spend("late") /\ trouble' = trouble + 1
  /\ SendAgain
  /\ UNCHANGED <<scenario, session, client, toServer, disk, printed, missed>>

-----------------------------------------------------------------------------
Lose ==
  /\ Spend("losses") /\ trouble' = trouble + 1
  /\ \/ /\ toServer # <<>> /\ toServer' = Tail(toServer)
        /\ missed' = missed \cup {Head(toServer).type} /\ UNCHANGED toClient
     \/ /\ toClient # <<>> /\ toClient' = Tail(toClient)
        /\ UNCHANGED <<toServer, missed>>
  /\ UNCHANGED <<scenario, session, client, server, disk, printed>>

ClientStep == PutFile \/ SendChunk \/ StartShell \/ ReadAnswer \/ ReadOutput
ServerStep == ProcessOther \/ ContinueReceivingFile \/ ForwardOutput \/ ReadAcknowledgement
Timeout    == NoAnswer \/ NoAnswerYet \/ NoAcknowledgement \/ NoAcknowledgementYet
Next == \/ ClientStep \/ ServerStep \/ Timeout
        \/ Type \/ NextClient \/ DiskFull \/ ShellWrites \/ Lose

(* Both processes run and read what comes. Users, losses and timeouts need *)
(* not come.                                                               *)
Fairness == WF_vars(ClientStep) /\ WF_vars(ServerStep)
Spec == Init /\ [][Next]_vars /\ Fairness

-----------------------------------------------------------------------------
(* Properties                                                              *)

NeverFull == left["full"] = scenario.full
Chunks(f, n) == [i \in 1 .. n |-> f \o <<i>>]
Prefix(f) == disk[f] = Chunks(f, Len(disk[f]))

(* Whatever is lost, repeated or late: a file on the box is the beginning  *)
(* of the one that was sent, no chunk missing, twice or of another file.   *)
(* One loss does not change that. The name of a file and the end of the one*)
(* before must both be lost, or the disk be full in the middle of a chunk. *)
NoMixture == NeverFull /\ ("put_name_msg" \notin missed \/ trouble <= 1)
               => \A f \in FileNames : Prefix(f)

(* Fewer mishaps than sends of a chunk, and every file is complete when the*)
(* client ends, if the server was told its name.                           *)
Complete ==
  Working.mode = "put" /\ client.pc = "done" /\ toServer = <<>>
    /\ NeverFull /\ "put_name_msg" \notin missed /\ trouble < Tries
    => \A i \in DOMAIN Working.files :
         disk[<<session, i>>] = Chunks(<<session, i>>, Working.files[i])

(* The shell's output is printed in order, none of it twice.               *)
Real(i) == printed[i] # Junk
PrintedInOrder ==
  Working.mode = "shell" =>
    \A i, j \in DOMAIN printed : i < j /\ Real(i) /\ Real(j) => printed[i] < printed[j]

(* A client that expects a number the server is past is deaf for good. It  *)
(* takes as many mishaps as a chunk has sends. (One that is ahead, since it*)
(* took a late answer for output, misses some and hears again.)            *)
NextNumber == IF server.state = "shell" THEN server.seq ELSE 1
NotDeaf ==
  Working.mode = "shell" /\ client.pc = "shell" /\ NothingComes /\ trouble < Tries
    => client.recv >= NextNumber

(* Whoever puts files gets to the end: if nothing is lost or late, however *)
(* busy the network is; and whatever is lost, if the network is quiet for  *)
(* long enough now and then for the timeouts of both sides to come.        *)
TimeoutsCome == WF_vars(NoAnswer) /\ WF_vars(NoAcknowledgement)
PutEnds == [](trouble = 0) \/ TimeoutsCome => (Working.mode = "put" ~> client.pc = "done")
=============================================================================
