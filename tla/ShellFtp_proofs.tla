----------------------------- MODULE ShellFtp_proofs -----------------------------
(***************************************************************************)
(* What the server's shell writes is printed in order and once, and files  *)
(* are not mixed up, for any clients one after the other, any files, and   *)
(* any frames lost or late. And before there were as many mishaps as sends *)
(* of a chunk, a shell client does not go deaf, and files arrive complete. *)
(***************************************************************************)
EXTENDS ShellFtp, SequenceTheorems, FiniteSetTheorems, TLAPS

-----------------------------------------------------------------------------
(* Types                                                                   *)

Data == Nat \cup (Nat \X Nat) \cup (Nat \X Nat \X Nat)
MsgType == Reply \cup {"put_name_msg", "transfer_cont_msg", "transfer_end_msg",
                       "start_shell_msg", "shell_cmd_msg", "shell_response_msg"}
ToServer == [type : MsgType, seq : Int, data : Data]
ToClient == [type : MsgType, seq : Int, data : Nat]
Pcs == {"file", "chunk", "answer", "done", "start", "shell"}
ClientState == [pc : Pcs, file : Nat \ {0}, seq : Nat, tries : Nat, errors : Nat,
                recv : Nat]
States == {"nominal", "receiving_file", "shell"}
ServerState == [pc : {"loop", "answer"}, known : BOOLEAN, state : States, seq : Nat,
                tries : Nat, receiving : BOOLEAN, recv : Nat,
                fd : FileNames \cup {NoFile}, out : Seq(Nat)]
Steps(mode) == IF mode = "put" THEN {"file", "chunk", "answer", "done"}
               ELSE {"start", "answer", "shell"}

Sending == Working.mode = "put" /\ client.pc \in {"chunk", "answer"}
ClientTypes ==
  /\ client \in ClientState
  /\ client.pc \in Steps(Working.mode)
  /\ Sending => client.file \in DOMAIN Working.files
ServerTypes ==
  /\ server \in ServerState
  /\ server.pc = "answer" => server.out # <<>>
  /\ server.receiving => server.fd \in FileNames

\* What the client sends: names of files, chunks with their place in a file.
FileOf(m) == <<m.data[1], m.data[2]>>
Sendable(m) ==
  /\ m.type = "put_name_msg" => m.data \in FileNames
  /\ m.type = "transfer_cont_msg" =>
       m.data \in Nat \X Nat \X Nat /\ m.data[3] = m.seq /\ FileOf(m) \in FileNames
FrameTypes ==
  /\ toServer \in Seq(ToServer) /\ toClient \in Seq(ToClient)
  /\ \A i \in DOMAIN toServer : Sendable(toServer[i])
  /\ printed \in Seq(Nat)
Counts ==
  /\ scenario \in Scenarios /\ session \in DOMAIN scenario.sessions
  /\ left \in [{"outputs", "commands", "losses", "late", "full"} -> Nat]
  /\ \A k \in DOMAIN left : left[k] <= scenario[k]
  /\ trouble \in Nat
  /\ missed # {} => trouble > 0
  /\ DOMAIN disk = FileNames

Types == Counts /\ ClientTypes /\ ServerTypes /\ FrameTypes

LEMMA Scene ==
  ASSUME Counts
  PROVE  /\ scenario.sessions \in Seq(Session) /\ Working \in Session
         /\ Working.mode \in Mode /\ Working.files \in Seq(Nat)
         /\ \A k \in {"outputs", "commands", "losses", "late", "full"} : scenario[k] \in Nat
<1>1. scenario \in Scenario
  BY ConstAssumption DEF ConstAssumption, Counts
<1>2. scenario.sessions \in Seq(Session) /\ session \in DOMAIN scenario.sessions
  BY <1>1 DEF Scenario, Counts
<1>3. Working \in Session
  BY <1>2 DEF Working
<1>4. Working.mode \in Mode /\ Working.files \in Seq(Nat)
  BY <1>3 DEF Session
<1> QED
  BY <1>1, <1>2, <1>3, <1>4 DEF Scenario

LEMMA NameOf ==
  ASSUME Counts, NEW i \in DOMAIN Working.files
  PROVE  <<session, i>> \in FileNames
BY DEF FileNames, Working, Counts

LEMMA FirstClient ==
  ASSUME Counts, NEW mode \in Mode
  PROVE  /\ Fresh(mode) \in ClientState /\ Fresh(mode).pc \in Steps(mode)
         /\ Fresh(mode).pc \notin {"chunk", "answer"} /\ Fresh(mode).recv = 1
<1>1. FirstStep(mode) \in Pcs /\ FirstStep(mode) \in Steps(mode)
      /\ FirstStep(mode) \notin {"chunk", "answer"}
  BY DEF FirstStep, Pcs, Steps, Mode
<1> QED
  BY <1>1 DEF Fresh, ClientState

\* What an answer, or none, makes of the client.
LEMMA ClientGoesOn ==
  ASSUME Counts, ClientTypes, client.pc = "answer", NEW c \in {Failed(client), Answered(client)}
  PROVE  /\ c \in ClientState /\ c.pc \in Steps(Working.mode) /\ c.recv = client.recv
         /\ c.file = client.file \/ c.pc = "file"
<1>0. client \in ClientState
  BY DEF ClientTypes
<1> DEFINE Fits(d) == /\ d \in ClientState /\ d.pc \in Steps(Working.mode)
                      /\ d.recv = client.recv
                      /\ d.file = client.file \/ d.pc = "file"
<1>1. PICK t \in Nat, q \in Nat, e \in Nat, f \in Nat \ {0} :
        /\ t = client.tries + 1 /\ q = client.seq + 1
        /\ e = client.errors + 1 /\ f = client.file + 1
  BY <1>0 DEF ClientState
<1>2. Fits(Again(client))
  <2> DEFINE p == IF Working.mode = "put" THEN "chunk" ELSE "start"
  <2>1. p \in Pcs /\ p \in Steps(Working.mode)
    BY DEF Pcs, Steps
  <2> HIDE DEF p
  <2>2. PICK d : d = [client EXCEPT !.pc = p, !.tries = t]
    OBVIOUS
  <2>3. Fits(d)
    BY <1>0, <2>1, <2>2 DEF ClientState
  <2>4. Again(client) = d
    BY <1>1, <2>2 DEF Again, p
  <2> HIDE DEF Fits
  <2> QED
    BY <2>3, <2>4
<1>3. ASSUME Working.mode = "put", NEW n \in Nat
      PROVE  Fits(NextChunk(client, n))
  <2>1. PICK d : d = [client EXCEPT !.pc = "chunk", !.seq = q, !.tries = 0, !.errors = n]
    OBVIOUS
  <2>2. Fits(d)
    BY <1>0, <1>3, <2>1 DEF ClientState, Steps, Pcs
  <2>3. NextChunk(client, n) = d
    BY <1>1, <2>1 DEF NextChunk
  <2> HIDE DEF Fits
  <2> QED
    BY <2>2, <2>3
<1>4. ASSUME Working.mode # "put"
      PROVE  Fits([client EXCEPT !.pc = "shell"])
  BY <1>0, <1>4 DEF Steps, ClientState, Pcs
<1>5. ASSUME Working.mode = "put"
      PROVE  Fits([client EXCEPT !.pc = "file", !.file = @ + 1])
  <2>1. PICK d : d = [client EXCEPT !.pc = "file", !.file = f]
    OBVIOUS
  <2>2. Fits(d)
    BY <1>0, <1>5, <2>1 DEF ClientState, Steps, Pcs
  <2>3. [client EXCEPT !.pc = "file", !.file = @ + 1] = d
    BY <1>1, <2>1
  <2> HIDE DEF Fits
  <2> QED
    BY <2>2, <2>3
<1> HIDE DEF Fits
<1>6. Fits(Failed(client))
  BY <1>1, <1>2, <1>3, <1>4, <1>5 DEF Failed, UpToTries, GiveUp
<1>7. Fits(Answered(client))
  BY <1>3, <1>4 DEF Answered
<1> QED
  BY <1>6, <1>7 DEF Fits

-----------------------------------------------------------------------------
(* Queues                                                                  *)

LEMMA Appended ==
  ASSUME NEW S, NEW q \in Seq(S), NEW m \in S
  PROVE  /\ Append(q, m) \in Seq(S) /\ Len(Append(q, m)) = Len(q) + 1
         /\ Append(q, m)[Len(q) + 1] = m
         /\ \A i \in 1 .. Len(q) : Append(q, m)[i] = q[i]
         /\ DOMAIN q = 1 .. Len(q) /\ DOMAIN Append(q, m) = 1 .. Len(q) + 1
         /\ Len(q) \in Nat
OBVIOUS

LEMMA Shifted ==
  ASSUME NEW S, NEW q \in Seq(S), q # <<>>
  PROVE  /\ Tail(q) \in Seq(S) /\ Len(Tail(q)) = Len(q) - 1
         /\ Head(q) = q[1] /\ q[1] \in S /\ 1 \in DOMAIN q
         /\ \A i \in 1 .. Len(q) - 1 : Tail(q)[i] = q[i + 1]
         /\ DOMAIN q = 1 .. Len(q) /\ DOMAIN Tail(q) = 1 .. Len(q) - 1
         /\ Len(q) \in Nat \ {0}
OBVIOUS

-----------------------------------------------------------------------------
(* Every step keeps the types.                                             *)

LEMMA Spending ==
  ASSUME Counts, NEW k \in DOMAIN left, Spend(k)
  PROVE  /\ left' \in [{"outputs", "commands", "losses", "late", "full"} -> Nat]
         /\ \A x \in DOMAIN left : left'[x] <= left[x] /\ left'[x] <= scenario[x]
         /\ left'[k] = left[k] - 1
         /\ \A x \in DOMAIN left \ {k} : left'[x] = left[x]
<1>1. /\ left \in [{"outputs", "commands", "losses", "late", "full"} -> Nat]
      /\ k \in {"outputs", "commands", "losses", "late", "full"}
      /\ DOMAIN left = {"outputs", "commands", "losses", "late", "full"}
      /\ left[k] > 0 /\ left' = [left EXCEPT ![k] = left[k] - 1]
  BY DEF Counts, Spend
<1>2. /\ \A x \in DOMAIN left : left[x] <= scenario[x] /\ left[x] \in Nat
      /\ \A x \in DOMAIN left : scenario[x] \in Nat
  BY <1>1, Scene DEF Counts
<1>3. PICK n \in Nat : n = left[k] - 1 /\ n <= left[k] /\ n <= scenario[k]
  <2>1. left[k] \in Nat /\ left[k] <= scenario[k] /\ scenario[k] \in Nat
    BY <1>1, <1>2
  <2> QED
    BY ONLY <1>1, <2>1
<1>4. left' = [left EXCEPT ![k] = n]
  BY <1>1, <1>3
<1>5. left'[k] = n /\ \A x \in DOMAIN left \ {k} : left'[x] = left[x]
  BY ONLY <1>1, <1>4
<1>6. left' \in [{"outputs", "commands", "losses", "late", "full"} -> Nat]
  BY ONLY <1>1, <1>4, n \in Nat
<1>7. ASSUME NEW x \in DOMAIN left
      PROVE  left'[x] <= left[x] /\ left'[x] <= scenario[x]
  BY <1>2, <1>3, <1>5, <1>7
<1> QED
  BY <1>3, <1>5, <1>6, <1>7

LEMMA CountsNext ==
  ASSUME Types, Next
  PROVE  Counts'
<1> USE DEF Types
<1>1. scenario' = scenario /\ session' \in DOMAIN scenario.sessions
  <2>1. session' = session \/ NextClient
    BY DEF Next, ClientStep, ServerStep, Timeout, PutFile, SendChunk, StartShell, ReadAnswer,
       NoAnswer, ReadOutput, ProcessOther, ContinueReceivingFile, ForwardOutput,
       ReadAcknowledgement, NoAcknowledgement, NoAnswerYet, NoAcknowledgementYet, Type,
       DiskFull, ShellWrites, Lose
  <2>2. scenario' = scenario
    BY DEF Next, ClientStep, ServerStep, Timeout, PutFile, SendChunk, StartShell, ReadAnswer,
       NoAnswer, ReadOutput, ProcessOther, ContinueReceivingFile, ForwardOutput,
       ReadAcknowledgement, NoAcknowledgement, NoAnswerYet, NoAcknowledgementYet, Type,
       DiskFull, ShellWrites, Lose, NextClient
  <2>3. CASE NextClient
    BY <2>2, <2>3, Scene DEF NextClient, Counts
  <2> QED
    BY <2>1, <2>2, <2>3 DEF Counts
<1>2. /\ left' \in [{"outputs", "commands", "losses", "late", "full"} -> Nat]
      /\ \A k \in DOMAIN left' : left'[k] <= scenario'[k]
  <2>1. left' = left \/ \E k \in DOMAIN left : Spend(k)
    BY DEF Next, ClientStep, ServerStep, Timeout, PutFile, SendChunk, StartShell, ReadAnswer,
       NoAnswer, ReadOutput, ProcessOther, ContinueReceivingFile, ForwardOutput,
       ReadAcknowledgement, NoAcknowledgement, NoAnswerYet, NoAcknowledgementYet, Type,
       DiskFull, ShellWrites, Lose, NextClient, Counts
  <2>2. CASE left' = left
    BY <1>1, <2>2 DEF Counts
  <2>3. ASSUME NEW k \in DOMAIN left, Spend(k)
        PROVE  <1>2!1 /\ <1>2!2
    BY <1>1, <2>3, Spending DEF Counts
  <2> QED
    BY <2>1, <2>2, <2>3
<1>3. /\ trouble' \in Nat /\ trouble <= trouble' /\ missed \subseteq missed'
      /\ missed' # missed => trouble' > trouble
  BY DEF Next, ClientStep, ServerStep, Timeout, PutFile, SendChunk, StartShell, ReadAnswer,
     NoAnswer, ReadOutput, ProcessOther, ContinueReceivingFile, ForwardOutput,
     ReadAcknowledgement, NoAcknowledgement, NoAnswerYet, NoAcknowledgementYet, Type,
     DiskFull, ShellWrites, Lose, NextClient, Counts
<1>4. DOMAIN disk' = FileNames'
  <2>1. FileNames' = FileNames
    BY <1>1 DEF FileNames
  <2>2. DOMAIN disk' = DOMAIN disk
    BY DEF Next, ClientStep, ServerStep, Timeout, PutFile, SendChunk, StartShell, ReadAnswer,
       NoAnswer, ReadOutput, ProcessOther, ContinueReceivingFile, ForwardOutput,
       ReadAcknowledgement, NoAcknowledgement, NoAnswerYet, NoAcknowledgementYet, Type,
       DiskFull, ShellWrites, Lose, NextClient
  <2> QED
    BY <2>1, <2>2 DEF Counts
<1> QED
  BY <1>1, <1>2, <1>3, <1>4 DEF Counts

LEMMA ClientNext ==
  ASSUME Types, Next
  PROVE  ClientTypes'
<1> USE DEF Types
<1>0. client \in ClientState /\ client.pc \in Steps(Working.mode)
  BY DEF ClientTypes
<1>1. CASE client' = client /\ session' = session /\ scenario' = scenario
  BY <1>1 DEF ClientTypes, Working, Sending
<1>2. CASE NextClient
  <2>1. scenario' = scenario /\ session' \in DOMAIN scenario.sessions
    BY <1>2, Scene DEF NextClient, Counts
  <2>2. Working'.mode \in Mode
    <3>1. Working' = scenario.sessions[session']
      BY <2>1 DEF Working
    <3>2. scenario.sessions[session'] \in Session
      BY <2>1, Scene
    <3> QED
      BY <3>1, <3>2 DEF Session
  <2>3. client' = Fresh(Working'.mode)
    BY <1>2 DEF NextClient, Working
  <2> QED
    BY <2>1, <2>2, <2>3, FirstClient DEF ClientTypes, Sending
<1>3. ASSUME session' = session, scenario' = scenario, NEW c, client' = c,
             c \in ClientState, c.pc \in Steps(Working.mode),
             c.pc \in {"chunk", "answer"} => c.file = client.file /\ Sending
      PROVE  ClientTypes'
  BY <1>3 DEF ClientTypes, Working, Sending
<1>4. CASE PutFile
  <2>1. Working.mode = "put"
    BY <1>0, <1>4 DEF PutFile, Steps
  <2>2. CASE client.file > Len(Working.files)
    <3>1. client' = [client EXCEPT !.pc = "done"]
      BY <1>4, <2>2 DEF PutFile
    <3>2. client' \in ClientState /\ client'.pc = "done"
      BY <1>0, <3>1 DEF ClientState, Pcs
    <3> QED
      BY <1>3, <1>4, <2>1, <3>2 DEF PutFile, Steps
  <2>3. CASE ~ (client.file > Len(Working.files))
    <3>1. client' = [client EXCEPT !.pc = "chunk", !.seq = 1, !.tries = 0, !.errors = 0]
      BY <1>4, <2>3 DEF PutFile
    <3>2. /\ client' \in ClientState /\ client'.pc = "chunk"
          /\ client'.file = client.file
      BY <1>0, <3>1 DEF ClientState, Pcs
    <3>3. client.file \in DOMAIN Working.files
      BY <1>0, <2>3, Scene DEF ClientState
    <3> QED
      BY <1>4, <2>1, <3>2, <3>3 DEF PutFile, ClientTypes, Working, Sending, Steps
  <2> QED
    BY <2>2, <2>3
<1>5. CASE SendChunk
  <2>1. Working.mode = "put" /\ Sending
    BY <1>0, <1>5 DEF SendChunk, Steps, Sending
  <2>2. PICK f \in Nat \ {0} : f = client.file + 1
    BY <1>0 DEF ClientState
  <2>3. CASE client' = [client EXCEPT !.pc = "file", !.file = @ + 1]
    <3>1. client' = [client EXCEPT !.pc = "file", !.file = f]
      BY <2>2, <2>3
    <3>2. client' \in ClientState /\ client'.pc = "file"
      BY <1>0, <3>1 DEF ClientState, Pcs
    <3> QED
      BY <1>3, <1>5, <2>1, <3>2 DEF SendChunk, Steps
  <2>4. CASE client' = [client EXCEPT !.pc = "answer"]
    <3>1. /\ client' \in ClientState /\ client'.pc = "answer"
          /\ client'.file = client.file
      BY <1>0, <2>4 DEF ClientState, Pcs
    <3> QED
      BY <1>3, <1>5, <2>1, <3>1 DEF SendChunk, Steps
  <2> QED
    BY <1>5, <2>3, <2>4 DEF SendChunk
<1>6. CASE StartShell
  <2>1. Working.mode # "put"
    BY <1>0, <1>6 DEF StartShell, Steps
  <2>2. PICK p \in {"shell", "answer"} : client' = [client EXCEPT !.pc = p]
    BY <1>6 DEF StartShell
  <2>3. client' \in ClientState /\ client'.pc = p
    BY <1>0, <2>2 DEF ClientState, Pcs
  <2> QED
    BY <1>6, <2>1, <2>3 DEF StartShell, ClientTypes, Sending, Working, Steps
<1>7. CASE ReadAnswer \/ NoAnswer \/ NoAnswerYet
  <2>1. /\ client.pc = "answer" /\ session' = session /\ scenario' = scenario
        /\ \/ client' = client
           \/ client' \in {Failed(client), Answered(client)}
    BY <1>7 DEF ReadAnswer, NoAnswer, NoAnswerYet
  <2>2. ASSUME client' \in {Failed(client), Answered(client)}
        PROVE  ClientTypes'
    <3>1. PICK c \in {Failed(client), Answered(client)} : client' = c
      BY <2>2
    <3>2. /\ c \in ClientState /\ c.pc \in Steps(Working.mode)
          /\ c.file = client.file \/ c.pc = "file"
      BY <2>1, ClientGoesOn
    <3>3. Working.mode = "put" => Sending
      BY <2>1 DEF Sending
    <3> QED
      BY <2>1, <3>1, <3>2, <3>3 DEF ClientTypes, Working, Sending
  <2> QED
    BY <1>1, <2>1, <2>2
<1>8. CASE ReadOutput
  <2>1. PICK r \in Nat : r = client.recv + 1
    BY <1>0 DEF ClientState
  <2>2. CASE client' = [client EXCEPT !.recv = @ + 1]
    <3>1. client' = [client EXCEPT !.recv = r]
      BY <2>1, <2>2
    <3>2. client' \in ClientState /\ client'.pc = client.pc
      BY <1>0, <3>1 DEF ClientState
    <3>3. session' = session /\ scenario' = scenario /\ client.pc = "shell"
      BY <1>8 DEF ReadOutput
    <3> QED
      BY <1>0, <1>3, <3>2, <3>3
  <2> QED
    BY <1>1, <1>8, <2>2 DEF ReadOutput
<1>9. \/ client' = client /\ session' = session /\ scenario' = scenario
      \/ NextClient \/ PutFile \/ SendChunk \/ StartShell \/ ReadAnswer \/ NoAnswer
      \/ NoAnswerYet \/ ReadOutput
  BY DEF Next, ClientStep, ServerStep, Timeout, ProcessOther, ContinueReceivingFile, ForwardOutput,
     ReadAcknowledgement, NoAcknowledgement, NoAcknowledgementYet, Type, DiskFull,
     ShellWrites, Lose
<1> QED
  BY <1>1, <1>2, <1>4, <1>5, <1>6, <1>7, <1>8, <1>9

\* The server, and what is sent, as each step leaves them.
LEMMA ServerGoesOn ==
  ASSUME Types
  PROVE  /\ [server EXCEPT !.known = TRUE] \in ServerState
         /\ [server EXCEPT !.known = TRUE].receiving = server.receiving
         /\ [server EXCEPT !.known = TRUE].fd = server.fd
         /\ [server EXCEPT !.known = TRUE].pc = server.pc
         /\ [server EXCEPT !.known = TRUE].out = server.out
         /\ [server EXCEPT !.known = TRUE].recv = server.recv
         /\ [server EXCEPT !.known = TRUE].seq = server.seq
BY DEF Types, ServerTypes, ServerState

LEMMA OtherServer ==
  ASSUME Types, ProcessOther
  PROVE  /\ server' \in ServerState /\ server'.pc = "loop"
         /\ server'.out = server.out
         /\ IF Head(toServer).type = "put_name_msg"
            THEN server'.receiving /\ server'.fd = Head(toServer).data /\ server'.recv = 1
            ELSE /\ server'.fd = server.fd /\ server'.recv = server.recv
                 /\ server'.receiving = (server.receiving
                                         /\ Head(toServer).type # "transfer_end_msg")
<1> DEFINE m == Head(toServer)
<1>1. PICK sv : sv = [server EXCEPT !.known = TRUE]
  OBVIOUS
<1>2. /\ sv \in ServerState /\ sv.receiving = server.receiving /\ sv.fd = server.fd
      /\ sv.pc = "loop" /\ sv.out = server.out /\ sv.recv = server.recv
  BY <1>1, ServerGoesOn DEF ProcessOther
<1>3. toServer # <<>> /\ Sendable(m)
  BY Shifted DEF ProcessOther, Types, FrameTypes
<1>4. /\ m.type = "put_name_msg" => server' = StartReceivingFile(sv, m)
      /\ m.type = "transfer_end_msg" => server' = EndReceivingFile(sv)
      /\ m.type = "start_shell_msg" => server' = StartCounting(sv)
      /\ m.type \notin {"put_name_msg", "transfer_end_msg", "start_shell_msg"} => server' = sv
  BY <1>1 DEF ProcessOther
<1>5. CASE m.type = "put_name_msg"
  <2>1. m.data \in FileNames
    BY <1>3, <1>5 DEF Sendable
  <2>2. server' = [sv EXCEPT !.state = "receiving_file", !.receiving = TRUE, !.fd = m.data,
                             !.recv = 1]
    BY <1>4, <1>5 DEF StartReceivingFile, FirstNumber, CountAnew
  <2> HIDE DEF m
  <2>3. /\ server' \in ServerState /\ server'.pc = "loop" /\ server'.out = server.out
        /\ server'.receiving /\ server'.fd = m.data /\ server'.recv = 1
    BY <1>2, <2>1, <2>2 DEF ServerState, States
  <2> QED
    BY <1>5, <2>3 DEF m
<1>6. CASE m.type = "transfer_end_msg"
  <2>1. \/ sv.receiving /\ server' = [sv EXCEPT !.receiving = FALSE, !.state = "nominal"]
        \/ ~ sv.receiving /\ server' = sv
    BY <1>4, <1>6 DEF EndReceivingFile
  <2>2. /\ server' \in ServerState /\ server'.pc = "loop" /\ server'.out = server.out
        /\ server'.receiving = FALSE /\ server'.fd = server.fd
        /\ server'.recv = server.recv
    <3>1. CASE sv.receiving
      BY <1>2, <2>1, <3>1 DEF ServerState, States
    <3>2. CASE ~ sv.receiving
      BY <1>2, <2>1, <3>2 DEF ServerState
    <3> QED
      BY <3>1, <3>2
  <2> QED
    BY <1>6, <2>2
<1>7. CASE m.type \notin {"put_name_msg", "transfer_end_msg"}
  <2>1. server' = sv \/ server' = [sv EXCEPT !.seq = 1]
    BY <1>4, <1>7 DEF StartCounting, SeqAnew
  <2>2. /\ server' \in ServerState /\ server'.pc = "loop" /\ server'.out = server.out
        /\ server'.receiving = server.receiving /\ server'.fd = server.fd
        /\ server'.recv = server.recv
    BY <1>2, <2>1 DEF ServerState
  <2>3. server.receiving \in BOOLEAN
    BY DEF Types, ServerTypes, ServerState
  <2> QED
    BY <1>7, <2>2, <2>3
<1> QED
  BY <1>5, <1>6, <1>7

LEMMA ChunkServer ==
  ASSUME Types, ContinueReceivingFile
  PROVE  /\ server' \in ServerState /\ server'.pc = "loop" /\ server'.out = server.out
         /\ server'.receiving = server.receiving /\ server'.fd = server.fd
         /\ server'.recv = IF server.receiving /\ Head(toServer).seq = server.recv
                           THEN server.recv + 1 ELSE server.recv
<1> DEFINE m == Head(toServer)
<1>1. PICK sv : sv = [server EXCEPT !.known = TRUE]
  OBVIOUS
<1>2. /\ sv \in ServerState /\ sv.receiving = server.receiving /\ sv.fd = server.fd
      /\ sv.pc = "loop" /\ sv.out = server.out /\ sv.recv = server.recv
  BY <1>1, ServerGoesOn DEF ContinueReceivingFile
<1>3. PICK r \in Nat : r = sv.recv + 1
  BY <1>2 DEF ServerState
<1>4. CASE server.receiving /\ m.seq = server.recv
  <2>1. server' = [sv EXCEPT !.recv = r]
    BY <1>1, <1>2, <1>3, <1>4 DEF ContinueReceivingFile, Wanted, NextOne
  <2>2. /\ server' \in ServerState /\ server'.pc = "loop" /\ server'.out = server.out
        /\ server'.receiving = server.receiving /\ server'.fd = server.fd
        /\ server'.recv = r
    BY <1>2, <2>1 DEF ServerState
  <2> QED
    BY <1>2, <1>3, <1>4, <2>2
<1>5. CASE ~ (server.receiving /\ m.seq = server.recv)
  <2>1. server' = sv
    BY <1>1, <1>2, <1>5 DEF ContinueReceivingFile, Wanted, NextOne
  <2> QED
    BY <1>2, <1>5, <2>1
<1> QED
  BY <1>4, <1>5

LEMMA FullServer ==
  ASSUME Types, DiskFull
  PROVE  /\ server' \in ServerState /\ server'.pc = "loop" /\ server'.out = server.out
         /\ server'.receiving = server.receiving /\ server'.fd = server.fd
         /\ server'.recv = server.recv
<1>1. server' = [server EXCEPT !.known = TRUE] /\ server.pc = "loop"
  BY DEF DiskFull
<1> QED
  BY <1>1, ServerGoesOn

\* The server sends its first output, for the first time or again; or is done
\* with it.
SendsOutput ==
  /\ server.out # <<>> /\ server'.pc = "answer" /\ server'.out = server.out
  /\ server.pc = "answer" => server'.seq = server.seq
  /\ toClient' = Append(toClient, Msg("shell_response_msg", server'.seq, Head(server.out)))
EndsOutput ==
  /\ server.out # <<>> /\ server'.pc = "loop" /\ server'.out = Tail(server.out)
  /\ UNCHANGED toClient
SameFile ==
  server'.receiving = server.receiving /\ server'.fd = server.fd /\ server'.recv = server.recv

LEMMA SendsAgain ==
  ASSUME Types, server.pc = "answer", SendAgain
  PROVE  server' \in ServerState /\ SameFile /\ (SendsOutput \/ EndsOutput)
<1>1. server \in ServerState /\ server.out # <<>>
  BY DEF Types, ServerTypes
<1>2. PICK t \in Nat, q \in Nat : t = server.tries + 1 /\ q = server.seq + 1
  BY <1>1 DEF ServerState
<1>3. Tail(server.out) \in Seq(Nat)
  BY <1>1, Shifted DEF ServerState
<1>4. CASE server.tries + 1 < Tries
  <2>1. /\ server' = [server EXCEPT !.tries = t]
        /\ toClient' = Append(toClient, Msg("shell_response_msg", server.seq, Head(server.out)))
    BY <1>2, <1>4 DEF SendAgain
  <2>2. /\ server' \in ServerState /\ SameFile /\ server'.pc = "answer"
        /\ server'.out = server.out /\ server'.seq = server.seq
    BY <1>1, <2>1 DEF ServerState, SameFile
  <2> QED
    BY <1>1, <2>1, <2>2 DEF SendsOutput
<1>5. CASE ~ (server.tries + 1 < Tries)
  <2>1. PICK o \in Seq(Nat) : o = Tail(server.out)
    BY <1>3
  <2>2. server' = [server EXCEPT !.pc = "loop", !.out = o, !.seq = q] /\ UNCHANGED toClient
    BY <1>2, <1>5, <2>1 DEF SendAgain, Ended
  <2>3. server' \in ServerState /\ SameFile /\ server'.pc = "loop" /\ server'.out = o
    BY <1>1, <2>2 DEF ServerState, SameFile
  <2> QED
    BY <1>1, <2>1, <2>2, <2>3 DEF EndsOutput
<1> QED
  BY <1>4, <1>5

LEMMA OutputSteps ==
  ASSUME Types,
         ForwardOutput \/ ReadAcknowledgement \/ NoAcknowledgement \/ NoAcknowledgementYet
  PROVE  /\ server' \in ServerState /\ SameFile
         /\ SendsOutput \/ EndsOutput \/ UNCHANGED <<server, toClient>>
<1>1. server \in ServerState
  BY DEF Types, ServerTypes
<1>2. CASE ForwardOutput
  <2>1. server.pc = "loop" /\ server.out # <<>>
    BY <1>2 DEF ForwardOutput
  <2>2. PICK o \in Seq(Nat) : o = Tail(server.out)
    BY <1>1, <2>1, Shifted DEF ServerState
  <2>3. CASE ~ server.known
    <3>1. server' = [server EXCEPT !.out = o] /\ UNCHANGED toClient
      BY <1>2, <2>2, <2>3 DEF ForwardOutput
    <3>2. server' \in ServerState /\ SameFile /\ server'.pc = "loop" /\ server'.out = o
      BY <1>1, <2>1, <3>1 DEF ServerState, SameFile
    <3> QED
      BY <2>1, <2>2, <3>1, <3>2 DEF EndsOutput
  <2>4. CASE server.known
    <3>1. PICK n \in Nat : n = IF server.state = "shell" THEN server.seq ELSE 1
      BY <1>1 DEF ServerState
    <3>2. /\ server' = [server EXCEPT !.pc = "answer", !.state = "shell", !.seq = n, !.tries = 0]
          /\ toClient' = Append(toClient, Msg("shell_response_msg", n, Head(server.out)))
      BY <1>2, <2>4, <3>1 DEF ForwardOutput
    <3>3. /\ server' \in ServerState /\ SameFile /\ server'.pc = "answer"
          /\ server'.out = server.out /\ server'.seq = n
      BY <1>1, <3>2 DEF ServerState, States, SameFile
    <3> QED
      BY <2>1, <3>2, <3>3 DEF SendsOutput
  <2> QED
    BY <2>3, <2>4
<1>3. CASE ReadAcknowledgement
  <2>1. server.pc = "answer"
    BY <1>3 DEF ReadAcknowledgement
  <2>2. \/ UNCHANGED <<server, toClient>>
        \/ server' = Ended(server) /\ UNCHANGED toClient
        \/ SendAgain
    BY <1>3 DEF ReadAcknowledgement
  <2>3. CASE server' = Ended(server) /\ UNCHANGED toClient
    <3>1. PICK o \in Seq(Nat), q \in Nat : o = Tail(server.out) /\ q = server.seq + 1
      <4>1. server.out \in Seq(Nat) /\ server.out # <<>> /\ server.seq + 1 \in Nat
        BY <1>1, <2>1 DEF ServerState, Types, ServerTypes
      <4>2. Tail(server.out) \in Seq(Nat)
        BY <4>1, Shifted
      <4> QED
        BY <4>1, <4>2
    <3>2. server' = [server EXCEPT !.pc = "loop", !.out = o, !.seq = q]
      BY <2>3, <3>1 DEF Ended
    <3>3. server' \in ServerState /\ SameFile /\ server'.pc = "loop" /\ server'.out = o
      BY <1>1, <3>2 DEF ServerState, SameFile
    <3>4. server.out # <<>>
      BY <2>1 DEF Types, ServerTypes
    <3> QED
      BY <2>3, <3>1, <3>3, <3>4 DEF EndsOutput
  <2> QED
    BY <1>1, <2>1, <2>2, <2>3, SendsAgain DEF SameFile
<1>4. CASE NoAcknowledgement \/ NoAcknowledgementYet
  BY <1>4, SendsAgain DEF NoAcknowledgement, NoAcknowledgementYet
<1> QED
  BY <1>2, <1>3, <1>4

LEMMA WritingServer ==
  ASSUME Types, ShellWrites
  PROVE  /\ server' \in ServerState /\ SameFile /\ server'.pc = server.pc
         /\ server'.seq = server.seq
         /\ server'.out = Append(server.out, Outputs + 1) /\ Outputs' = Outputs + 1
         /\ Outputs \in Nat
<1>1. server \in ServerState /\ server.out \in Seq(Nat)
  BY DEF Types, ServerTypes, ServerState
<1>2. Outputs \in Nat /\ Outputs' = Outputs + 1
  <2>1. /\ left["outputs"] \in Nat /\ scenario["outputs"] \in Nat
        /\ left["outputs"] <= scenario["outputs"]
        /\ "outputs" \in DOMAIN left
    BY Scene DEF Types, Counts
  <2>2. left'["outputs"] = left["outputs"] - 1 /\ scenario' = scenario
    BY <2>1, Spending DEF ShellWrites, Types
  <2>3. scenario.outputs = scenario["outputs"]
    OBVIOUS
  <2> QED
    BY <2>1, <2>2, <2>3 DEF Outputs
<1>3. PICK o \in Seq(Nat) : o = Append(server.out, Outputs + 1)
  <2>1. Outputs + 1 \in Nat
    BY <1>2
  <2>2. Append(server.out, Outputs + 1) \in Seq(Nat)
    BY <1>1, <2>1, Appended
  <2> QED
    BY <2>2
<1>4. server' = [server EXCEPT !.out = o]
  BY <1>3 DEF ShellWrites
<1>5. /\ server' \in ServerState /\ SameFile /\ server'.pc = server.pc /\ server'.out = o
      /\ server'.seq = server.seq
  BY <1>1, <1>4 DEF ServerState, SameFile
<1> QED
  BY <1>2, <1>3, <1>5

LEMMA ServerNext ==
  ASSUME Types, Next
  PROVE  ServerTypes'
<1>1. scenario' = scenario /\ FileNames' = FileNames
  <2>1. scenario' = scenario
    BY DEF Next, ClientStep, ServerStep, Timeout, PutFile, SendChunk, StartShell, ReadAnswer,
       NoAnswer, ReadOutput, ProcessOther, ContinueReceivingFile, ForwardOutput,
       ReadAcknowledgement, NoAcknowledgement, NoAnswerYet, NoAcknowledgementYet, Type,
       DiskFull, ShellWrites, Lose, NextClient
  <2> QED
    BY <2>1 DEF FileNames
<1>2. ServerState' = ServerState
  BY <1>1 DEF ServerState
<1>3. ServerTypes
  BY DEF Types
<1>4. CASE server' = server
  BY <1>1, <1>2, <1>3, <1>4 DEF ServerTypes
<1>5. CASE ProcessOther
  <2>1. Sendable(Head(toServer))
    BY <1>5, Shifted DEF ProcessOther, Types, FrameTypes
  <2>2. server'.receiving => server'.fd \in FileNames
    BY <1>3, <1>5, <2>1, OtherServer DEF Sendable, ServerTypes
  <2> QED
    BY <1>1, <1>2, <1>5, <2>2, OtherServer DEF ServerTypes
<1>6. CASE ContinueReceivingFile
  BY <1>1, <1>2, <1>3, <1>6, ChunkServer DEF ServerTypes
<1>7. CASE DiskFull
  BY <1>1, <1>2, <1>3, <1>7, FullServer DEF ServerTypes
<1>8. CASE \/ ForwardOutput \/ ReadAcknowledgement \/ NoAcknowledgement
           \/ NoAcknowledgementYet
  <2>1. server'.pc = "answer" => server'.out # <<>>
    BY <1>3, <1>8, OutputSteps DEF SendsOutput, EndsOutput, ServerTypes
  <2> QED
    BY <1>1, <1>2, <1>3, <1>8, <2>1, OutputSteps DEF ServerTypes, SameFile
<1>9. CASE ShellWrites
  <2>1. server'.out # <<>>
    <3>1. server.out \in Seq(Nat)
      BY <1>3 DEF ServerTypes, ServerState
    <3>2. Outputs \in Nat /\ server'.out = Append(server.out, Outputs + 1)
      BY <1>9, WritingServer
    <3>3. Outputs + 1 \in Nat
      BY <3>2
    <3>4. Len(server'.out) = Len(server.out) + 1 /\ Len(server.out) \in Nat
      BY <3>1, <3>2, <3>3, Appended
    <3> QED
      BY <3>4
  <2> QED
    BY <1>1, <1>2, <1>3, <1>9, <2>1, WritingServer DEF ServerTypes, SameFile
<1> QED
  BY <1>4, <1>5, <1>6, <1>7, <1>8, <1>9
     DEF Next, ClientStep, ServerStep, Timeout, PutFile, SendChunk, StartShell, ReadAnswer,
         NoAnswer, ReadOutput, NoAnswerYet, Type, Lose, NextClient

LEMMA FramesNext ==
  ASSUME Types, Next
  PROVE  FrameTypes'
<1>1. /\ FileNames' = FileNames
      /\ toServer \in Seq(ToServer) /\ toClient \in Seq(ToClient) /\ printed \in Seq(Nat)
      /\ \A i \in DOMAIN toServer : Sendable(toServer[i])
  <2>1. scenario' = scenario
    BY DEF Next, ClientStep, ServerStep, Timeout, PutFile, SendChunk, StartShell, ReadAnswer,
       NoAnswer, ReadOutput, ProcessOther, ContinueReceivingFile, ForwardOutput,
       ReadAcknowledgement, NoAcknowledgement, NoAnswerYet, NoAcknowledgementYet, Type,
       DiskFull, ShellWrites, Lose, NextClient
  <2> QED
    BY <2>1 DEF FileNames, Types, FrameTypes
<1>2. \A m : Sendable(m) => Sendable(m)'
  BY <1>1 DEF Sendable, FileOf
\* What each step does to the frames under way.
<1> DEFINE ServerQueue == /\ toServer' \in Seq(ToServer)
                          /\ \A i \in DOMAIN toServer' : Sendable(toServer'[i])
<1> DEFINE ClientQueue == toClient' \in Seq(ToClient)
          Printing == printed' \in Seq(Nat)
<1> SUFFICES ServerQueue /\ ClientQueue /\ Printing
  BY <1>2 DEF FrameTypes
<1>0. UNCHANGED printed => Printing
  BY <1>1
<1>3. ASSUME UNCHANGED toServer
      PROVE  ServerQueue
  BY <1>0, <1>1, <1>3
<1>4. ASSUME toServer # <<>>, toServer' = Tail(toServer)
      PROVE  ServerQueue
  <2>1. /\ Tail(toServer) \in Seq(ToServer) /\ Len(toServer) \in Nat
        /\ DOMAIN Tail(toServer) = 1 .. Len(toServer) - 1
        /\ DOMAIN toServer = 1 .. Len(toServer)
        /\ \A i \in 1 .. Len(toServer) - 1 : Tail(toServer)[i] = toServer[i + 1]
    BY <1>0, <1>1, <1>4, Shifted
  <2>2. \A i \in 1 .. Len(toServer) - 1 : i + 1 \in 1 .. Len(toServer)
    BY <2>1
  <2> QED
    BY <1>0, <1>1, <1>4, <2>1, <2>2
<1>5. ASSUME NEW m \in ToServer, Sendable(m), toServer' = Append(toServer, m)
      PROVE  ServerQueue
  <2>1. /\ Append(toServer, m) \in Seq(ToServer)
        /\ DOMAIN Append(toServer, m) = 1 .. Len(toServer) + 1
        /\ DOMAIN toServer = 1 .. Len(toServer) /\ Len(toServer) \in Nat
        /\ Append(toServer, m)[Len(toServer) + 1] = m
        /\ \A i \in 1 .. Len(toServer) : Append(toServer, m)[i] = toServer[i]
    BY <1>0, <1>1, Appended
  <2> QED
    BY <1>0, <1>1, <1>5, <2>1
<1>6. ASSUME toClient # <<>>, toClient' = Tail(toClient)
      PROVE  ClientQueue
  BY <1>0, <1>1, <1>6, Shifted
<1>7. ASSUME NEW m \in ToClient, toClient' = Append(toClient, m)
      PROVE  ClientQueue
  BY <1>0, <1>1, <1>7, Appended
<1>8. UNCHANGED toClient => ClientQueue
  BY <1>1
<1> HIDE DEF ServerQueue, ClientQueue, Printing
<1>9. client \in ClientState /\ server \in ServerState
  BY DEF Types, ClientTypes, ServerTypes
<1>10. session \in Nat
  BY Scene DEF Types, Counts
<1>11. Junk \in Nat /\ Nat \subseteq Int /\ Nat \subseteq Data
  BY DEF Junk, Data
<1>12. CASE PutFile
  <2>1. CASE client.file > Len(Working.files)
    BY <1>0, <1>1, <1>3, <1>8, <1>12, <2>1 DEF PutFile
  <2>2. CASE ~ (client.file > Len(Working.files))
    <3>1. client.file \in DOMAIN Working.files
      BY <1>9, <2>2, Scene DEF ClientState, Types
    <3>2. <<session, client.file>> \in FileNames
      BY <3>1, NameOf DEF Types
    <3> DEFINE m == Msg("put_name_msg", 0, <<session, client.file>>)
    <3>3. m \in ToServer /\ Sendable(m)
      BY <1>9, <1>10, <3>2 DEF Msg, ToServer, MsgType, Data, Sendable, ClientState
    <3>4. toServer' = Append(toServer, m)
      BY <1>12, <2>2 DEF PutFile
    <3> HIDE DEF m
    <3> QED
      BY <1>0, <1>1, <1>5, <1>8, <1>12, <3>3, <3>4 DEF PutFile
  <2> QED
    BY <2>1, <2>2
<1>13. CASE SendChunk
  <2>1. Sending /\ Working.mode = "put"
    BY <1>9, <1>13 DEF SendChunk, Types, ClientTypes, Steps, Sending
  <2>2. <<session, client.file>> \in FileNames
    BY <2>1, NameOf DEF Types, ClientTypes
  <2>3. PICK m \in ToServer : Sendable(m) /\ toServer' = Append(toServer, m)
    <3>1. CASE client.seq > Working.files[client.file]
      <4>1. Msg("transfer_end_msg", 0, Junk) \in ToServer
        BY <1>11 DEF Msg, ToServer, MsgType
      <4>2. Sendable(Msg("transfer_end_msg", 0, Junk))
        BY DEF Sendable, Msg
      <4> QED
        BY <1>13, <3>1, <4>1, <4>2 DEF SendChunk
    <3>2. CASE ~ (client.seq > Working.files[client.file])
      <4> DEFINE m == Msg("transfer_cont_msg", client.seq, <<session, client.file, client.seq>>)
      <4>1. /\ m.type = "transfer_cont_msg" /\ m.seq = client.seq
            /\ m.data = <<session, client.file, client.seq>>
        BY DEF Msg
      <4>2. m \in ToServer
        BY <1>9, <1>10 DEF Msg, ToServer, MsgType, Data, ClientState
      <4>3. toServer' = Append(toServer, m)
        BY <1>13, <3>2 DEF SendChunk
      <4> HIDE DEF m
      <4>4. Sendable(m)
        BY <1>9, <1>10, <2>2, <4>1 DEF Sendable, FileOf, ClientState
      <4> QED
        BY <4>2, <4>3, <4>4
    <3> QED
      BY <3>1, <3>2
  <2> QED
    BY <1>0, <1>1, <1>5, <1>8, <1>13, <2>3 DEF SendChunk
<1>14. ASSUME NEW t \in {"start_shell_msg", "shell_cmd_msg", "recv_ok_msg"},
              NEW n \in Int, NEW d \in Nat, toServer' = Append(toServer, Msg(t, n, d))
       PROVE  ServerQueue
  <2>1. Msg(t, n, d) \in ToServer
    BY <1>11 DEF Msg, ToServer, MsgType, Reply
  <2>2. Sendable(Msg(t, n, d))
    BY DEF Sendable, Msg
  <2> QED
    BY <1>5, <1>14, <2>1, <2>2
<1>15. CASE StartShell \/ Type
  BY <1>0, <1>1, <1>8, <1>11, <1>14, <1>15 DEF StartShell, Type
<1>16. CASE ReadAnswer
  BY <1>0, <1>1, <1>3, <1>6, <1>16 DEF ReadAnswer
<1>17. CASE NoAnswer \/ NoAnswerYet
  BY <1>0, <1>1, <1>3, <1>8, <1>17 DEF NoAnswer, NoAnswerYet
<1>18. CASE ReadOutput
  <2>1. /\ Head(toClient) \in ToClient /\ toClient # <<>> /\ toClient' = Tail(toClient)
    BY <1>0, <1>1, <1>18, Shifted DEF ReadOutput
  <2>2. FirstWord(Head(toClient)) \in Int /\ Head(toClient).data \in Nat
    BY <2>1 DEF FirstWord, ToClient
  <2> DEFINE m == Head(toClient)
             n == FirstWord(m)
  <2>a. \/ UNCHANGED <<printed, toServer>>
        \/ /\ printed' = Append(printed, m.data)
           /\ toServer' = Append(toServer, Msg("recv_ok_msg", n, m.data))
    BY <1>18 DEF ReadOutput
  <2> HIDE DEF m, n
  <2>b. n \in Int /\ m.data \in Nat
    BY <2>2 DEF m, n
  <2>3. ServerQueue
    BY <1>3, <1>14, <2>a, <2>b
  <2>4. Printing
    <3>1. Append(printed, m.data) \in Seq(Nat)
      BY <1>1, <2>b, Appended
    <3> QED
      BY <1>0, <2>a, <3>1 DEF Printing
  <2> QED
    BY <1>6, <2>1, <2>3, <2>4
<1>19. CASE NextClient
  BY <1>3, <1>19 DEF NextClient, ClientQueue, Printing
<1>20. ASSUME NEW t \in MsgType, NEW n \in Nat, NEW d \in Nat,
              toClient' = Append(toClient, Msg(t, n, d))
       PROVE  ClientQueue
  <2>1. Msg(t, n, d) \in ToClient
    BY <1>11 DEF Msg, ToClient
  <2> QED
    BY <1>7, <1>20, <2>1
<1>21. CASE ProcessOther \/ ContinueReceivingFile \/ DiskFull
  <2>1. /\ toServer # <<>> /\ toServer' = Tail(toServer) /\ UNCHANGED printed
    BY <1>21 DEF ProcessOther, ContinueReceivingFile, DiskFull
  <2>2. \/ UNCHANGED toClient
        \/ \E t \in Reply, n \in Nat : toClient' = Append(toClient, Msg(t, n, Junk))
    <3>1. CASE ProcessOther
      BY <3>1 DEF ProcessOther, Reply
    <3>2. CASE ContinueReceivingFile
      <4>1. PICK sv : sv = [server EXCEPT !.known = TRUE]
        OBVIOUS
      <4>2. sv.recv \in Nat
        BY <1>9, <4>1, ServerGoesOn DEF ServerState
      <4>3. \/ UNCHANGED toClient
            \/ toClient' = Append(toClient, Msg("recv_ok_msg", sv.recv, Junk))
            \/ toClient' = Append(toClient, Msg("recv_err_msg", 0, Junk))
        BY <3>2, <4>1 DEF ContinueReceivingFile
      <4> QED
        BY <4>2, <4>3 DEF Reply
    <3>3. CASE DiskFull
      BY <3>3 DEF DiskFull, Reply
    <3> QED
      BY <1>21, <3>1, <3>2, <3>3
  <2> QED
    BY <1>0, <1>1, <1>4, <1>8, <1>11, <1>20, <2>1, <2>2
       DEF MsgType
<1>22. CASE \/ ForwardOutput \/ ReadAcknowledgement \/ NoAcknowledgement
            \/ NoAcknowledgementYet
  <2>1. ServerQueue /\ Printing
    <3>1. /\ UNCHANGED printed
          /\ \/ UNCHANGED toServer
             \/ toServer # <<>> /\ toServer' = Tail(toServer)
      BY <1>22
         DEF ForwardOutput, ReadAcknowledgement, NoAcknowledgement, NoAcknowledgementYet
    <3> QED
      BY <1>0, <1>3, <1>4, <3>1
  <2>2. ASSUME SendsOutput
        PROVE  ClientQueue
    <3>1. server'.seq \in Nat /\ Head(server.out) \in Nat
      <4>1. server' \in ServerState'
        BY ServerNext DEF ServerTypes
      <4>2. server'.seq \in Nat
        BY <4>1 DEF ServerState
      <4>3. server.out \in Seq(Nat) /\ server.out # <<>>
        BY <1>9, <2>2 DEF ServerState, SendsOutput
      <4> QED
        BY <4>2, <4>3, Shifted
    <3> QED
      BY <1>20, <2>2, <3>1 DEF SendsOutput, MsgType
  <2>3. ClientQueue
    BY <1>8, <1>22, <2>2, OutputSteps DEF EndsOutput
  <2> QED
    BY <1>0, <1>1, <2>1, <2>3
<1>23. CASE ShellWrites
  BY <1>0, <1>1, <1>3, <1>8, <1>23 DEF ShellWrites
<1>24. CASE Lose
  BY <1>0, <1>1, <1>3, <1>4, <1>6, <1>8, <1>24 DEF Lose
<1> QED
  BY <1>12, <1>13, <1>15, <1>16, <1>17, <1>18, <1>19, <1>21, <1>22, <1>23, <1>24
     DEF Next, ClientStep, ServerStep, Timeout

LEMMA NextTypes == Types /\ [Next]_vars => Types'
<1>1. ASSUME Types, Next PROVE Types'
  BY <1>1, CountsNext, ClientNext, ServerNext, FramesNext DEF Types
<1>2. ASSUME Types, UNCHANGED vars PROVE Types'
  <2>1. Counts' /\ ClientTypes'
    BY <1>2 DEF vars, Types, Counts, ClientTypes, Sending, Working, FileNames
  <2>2. ServerTypes'
    BY <1>2 DEF vars, Types, ServerTypes, ServerState, FileNames
  <2>3. FrameTypes'
    <3>1. \A m : Sendable(m) => Sendable(m)'
      BY <1>2 DEF vars, Sendable, FileOf, FileNames
    <3> QED
      BY <1>2, <3>1 DEF vars, Types, FrameTypes
  <2> QED
    BY <2>1, <2>2, <2>3 DEF Types
<1> QED
  BY <1>1, <1>2

LEMMA InitTypes == Init => Types
<1> SUFFICES ASSUME Init PROVE Types
  OBVIOUS
<1>1. scenario \in Scenario /\ scenario.sessions # <<>> /\ session = 1
  BY ConstAssumption DEF ConstAssumption, Init
<1>2. 1 \in DOMAIN scenario.sessions
  BY <1>1 DEF Scenario
<1>3. Counts
  BY <1>1, <1>2 DEF Init, Counts, Scenario
<1>4. ClientTypes
  BY <1>1, <1>3, Scene, FirstClient DEF Init, ClientTypes, Working, Sending
<1>5. ServerTypes
  BY DEF Init, ServerTypes, ServerState, States
<1>6. FrameTypes
  BY DEF Init, FrameTypes
<1> QED
  BY <1>3, <1>4, <1>5, <1>6 DEF Types

-----------------------------------------------------------------------------
(* Outputs: p are those printed, q the frames under way, o the outputs the *)
(* server has yet to send, n the number of those written; e says that it   *)
(* waits for an answer to the first of them, sent with number t; r is the  *)
(* number the client expects.                                              *)

IsOutput(m) == m.type = "shell_response_msg"

\* Output d is done with.
Past(d, o, n) == d <= n /\ \A k \in DOMAIN o : d < o[k]

\* Outputs are written, kept and sent in order; all frames with one output have
\* the same number.
Backlog(o, n) == /\ \A k \in DOMAIN o : o[k] \in 1 .. n
                 /\ \A k, l \in DOMAIN o : k < l => o[k] < o[l]
Sent(q, o, n, e, t) ==
  \A i \in DOMAIN q :
    IF IsOutput(q[i])
    THEN /\ q[i].data # Junk
         /\ \/ Past(q[i].data, o, n)
            \/ e /\ q[i].data = o[1] /\ q[i].seq = t
    ELSE q[i].data = Junk
SentInOrder(q) ==
  \A i, j \in DOMAIN q :
    i < j /\ IsOutput(q[i]) /\ IsOutput(q[j]) =>
      \/ q[i].data < q[j].data
      \/ q[i].data = q[j].data /\ q[i].seq = q[j].seq
Outs(q, o, n, e, t) == Backlog(o, n) /\ Sent(q, o, n, e, t) /\ SentInOrder(q)

\* The client is past the numbers of the outputs it has printed.
Read(d, q, o, n, e, t, r) ==
  /\ \/ Past(d, o, n)
     \/ e /\ d = o[1] /\ t < r
  /\ \A j \in DOMAIN q : IsOutput(q[j]) =>
       \/ d < q[j].data
       \/ d = q[j].data /\ q[j].seq < r
Reads(p, q, o, n, e, t, r) ==
  /\ \A i \in DOMAIN p : p[i] # Junk => Read(p[i], q, o, n, e, t, r)
  /\ \A i, j \in DOMAIN p : i < j /\ p[i] # Junk /\ p[j] # Junk => p[i] < p[j]

Waiting == server.pc = "answer"
OutInv ==
  /\ Outs(toClient, server.out, Outputs, Waiting, server.seq)
  /\ Working.mode = "shell" =>
       Reads(printed, toClient, server.out, Outputs, Waiting, server.seq, client.recv)

\* All frames of q2 are frames of q, k places earlier, or no outputs.
Fewer(q2, q, k) ==
  \A i \in DOMAIN q2 :
    \/ ~ IsOutput(q2[i]) /\ q2[i].data = Junk
    \/ i + k \in DOMAIN q /\ q2[i] = q[i + k]

LEMMA ClientFrame ==
  ASSUME NEW q \in Seq(ToClient), NEW i \in DOMAIN q
  PROVE  q[i].data \in Nat /\ q[i].seq \in Int /\ q[i].type \in MsgType
<1>1. q[i] \in ToClient
  OBVIOUS
<1> QED
  BY <1>1 DEF ToClient

LEMMA FewerOuts ==
  ASSUME NEW q \in Seq(ToClient), NEW q2 \in Seq(ToClient), NEW k \in {0, 1}, Fewer(q2, q, k),
         NEW o, NEW n, NEW e \in BOOLEAN, NEW t, NEW t2, e => t2 = t, Outs(q, o, n, e, t)
  PROVE  Outs(q2, o, n, e, t2)
<1>1. Sent(q2, o, n, e, t2)
  BY DEF Outs, Sent, Fewer
<1>2. SentInOrder(q2)
  <2> SUFFICES ASSUME NEW i \in DOMAIN q2, NEW j \in DOMAIN q2, i < j,
                      IsOutput(q2[i]), IsOutput(q2[j])
               PROVE  \/ q2[i].data < q2[j].data
                      \/ q2[i].data = q2[j].data /\ q2[i].seq = q2[j].seq
    BY DEF SentInOrder
  <2>1. /\ i + k \in DOMAIN q /\ q2[i] = q[i + k]
        /\ j + k \in DOMAIN q /\ q2[j] = q[j + k]
    BY DEF Fewer
  <2>2. i + k < j + k
    OBVIOUS
  <2> QED
    BY <2>1, <2>2 DEF Outs, SentInOrder
<1> QED
  BY <1>1, <1>2 DEF Outs

LEMMA FewerReads ==
  ASSUME NEW q \in Seq(ToClient), NEW q2 \in Seq(ToClient), NEW k \in {0, 1}, Fewer(q2, q, k),
         NEW o, NEW n, NEW e \in BOOLEAN, NEW t, NEW t2, e => t2 = t, NEW p, NEW r,
         Reads(p, q, o, n, e, t, r)
  PROVE  Reads(p, q2, o, n, e, t2, r)
<1>1. ASSUME NEW d, Read(d, q, o, n, e, t, r)
      PROVE  Read(d, q2, o, n, e, t2, r)
  BY <1>1 DEF Read, Fewer
<1> QED
  BY <1>1 DEF Reads

\* The shell writes one more.
LEMMA WrittenOuts ==
  ASSUME NEW q \in Seq(ToClient), NEW o \in Seq(Nat), NEW n \in Nat, NEW e \in BOOLEAN, NEW t,
         e => o # <<>>, Outs(q, o, n, e, t)
  PROVE  Outs(q, Append(o, n + 1), n + 1, e, t)
<1>1. /\ DOMAIN o = 1 .. Len(o) /\ Len(o) \in Nat
      /\ DOMAIN Append(o, n + 1) = 1 .. Len(o) + 1
      /\ Append(o, n + 1)[Len(o) + 1] = n + 1
      /\ \A i \in 1 .. Len(o) : Append(o, n + 1)[i] = o[i]
  BY Appended
<1>2. PICK o2 : o2 = Append(o, n + 1)
  OBVIOUS
<1>3. Backlog(o2, n + 1)
  BY <1>1, <1>2 DEF Outs, Backlog
<1>4. \A i \in DOMAIN q : q[i].data \in Nat
  BY ClientFrame
<1>5. ASSUME NEW d \in Nat, Past(d, o, n)
      PROVE  Past(d, o2, n + 1)
  BY <1>1, <1>2, <1>5 DEF Past
<1>6. e => o2[1] = o[1]
  BY <1>1, <1>2
<1>7. Sent(q, o2, n + 1, e, t)
  BY <1>4, <1>5, <1>6 DEF Outs, Sent
<1> QED
  BY <1>2, <1>3, <1>7 DEF Outs

LEMMA WrittenReads ==
  ASSUME NEW q, NEW o \in Seq(Nat), NEW n \in Nat, NEW e \in BOOLEAN, NEW t,
         e => o # <<>>, NEW p \in Seq(Nat), NEW r, Reads(p, q, o, n, e, t, r)
  PROVE  Reads(p, q, Append(o, n + 1), n + 1, e, t, r)
<1>1. /\ DOMAIN o = 1 .. Len(o) /\ Len(o) \in Nat
      /\ DOMAIN Append(o, n + 1) = 1 .. Len(o) + 1
      /\ Append(o, n + 1)[Len(o) + 1] = n + 1
      /\ \A i \in 1 .. Len(o) : Append(o, n + 1)[i] = o[i]
  BY Appended
<1>2. PICK o2 : o2 = Append(o, n + 1)
  OBVIOUS
<1>3. ASSUME NEW d \in Nat, Past(d, o, n)
      PROVE  Past(d, o2, n + 1)
  BY <1>1, <1>2, <1>3 DEF Past
<1>4. e => o2[1] = o[1]
  BY <1>1, <1>2
<1>5. ASSUME NEW d \in Nat, Read(d, q, o, n, e, t, r)
      PROVE  Read(d, q, o2, n + 1, e, t, r)
  BY <1>3, <1>4, <1>5 DEF Read
<1>6. \A i \in DOMAIN p : p[i] \in Nat
  OBVIOUS
<1> QED
  BY <1>2, <1>5, <1>6 DEF Reads

\* The server is done with the first one.
LEMMA EndedOuts ==
  ASSUME NEW q \in Seq(ToClient), NEW o \in Seq(Nat), o # <<>>, NEW n \in Nat,
         NEW e \in BOOLEAN, NEW t, NEW t2, Outs(q, o, n, e, t)
  PROVE  Outs(q, Tail(o), n, FALSE, t2)
<1>1. /\ DOMAIN o = 1 .. Len(o) /\ Len(o) \in Nat \ {0}
      /\ DOMAIN Tail(o) = 1 .. Len(o) - 1
      /\ \A i \in 1 .. Len(o) - 1 : Tail(o)[i] = o[i + 1]
  BY Shifted
<1>2. PICK o2 : o2 = Tail(o)
  OBVIOUS
<1>3. Backlog(o2, n)
  <2>1. \A k \in DOMAIN o2 : k + 1 \in DOMAIN o /\ o2[k] = o[k + 1]
    BY <1>1, <1>2
  <2>2. \A k, l \in DOMAIN o2 : k < l => k + 1 < l + 1
    BY <1>1, <1>2
  <2> QED
    BY <2>1, <2>2 DEF Outs, Backlog
<1>4. Past(o[1], o2, n)
  <2>1. o[1] <= n /\ \A k \in DOMAIN o : 1 < k => o[1] < o[k]
    BY <1>1 DEF Outs, Backlog
  <2>2. \A k \in DOMAIN o2 : k + 1 \in DOMAIN o /\ 1 < k + 1 /\ o2[k] = o[k + 1]
    BY <1>1, <1>2
  <2> QED
    BY <2>1, <2>2 DEF Past
<1>5. ASSUME NEW d, Past(d, o, n)
      PROVE  Past(d, o2, n)
  BY <1>1, <1>2, <1>5 DEF Past
<1>6. Sent(q, o2, n, FALSE, t2)
  BY <1>4, <1>5 DEF Outs, Sent
<1> QED
  BY <1>2, <1>3, <1>6 DEF Outs

LEMMA EndedReads ==
  ASSUME NEW q \in Seq(ToClient), NEW o \in Seq(Nat), o # <<>>, NEW n \in Nat,
         NEW e \in BOOLEAN, NEW t, NEW t2, NEW p, NEW r, Backlog(o, n),
         Reads(p, q, o, n, e, t, r)
  PROVE  Reads(p, q, Tail(o), n, FALSE, t2, r)
<1>1. /\ DOMAIN o = 1 .. Len(o) /\ Len(o) \in Nat \ {0}
      /\ DOMAIN Tail(o) = 1 .. Len(o) - 1
      /\ \A i \in 1 .. Len(o) - 1 : Tail(o)[i] = o[i + 1]
  BY Shifted
<1>2. PICK o2 : o2 = Tail(o)
  OBVIOUS
<1>3. Past(o[1], o2, n)
  <2>1. o[1] <= n /\ \A k \in DOMAIN o : 1 < k => o[1] < o[k]
    BY <1>1 DEF Backlog
  <2>2. \A k \in DOMAIN o2 : k + 1 \in DOMAIN o /\ 1 < k + 1 /\ o2[k] = o[k + 1]
    BY <1>1, <1>2
  <2> QED
    BY <2>1, <2>2 DEF Past
<1>4. ASSUME NEW d, Past(d, o, n)
      PROVE  Past(d, o2, n)
  BY <1>1, <1>2, <1>4 DEF Past
<1>5. ASSUME NEW d, Read(d, q, o, n, e, t, r)
      PROVE  Read(d, q, o2, n, FALSE, t2, r)
  BY <1>3, <1>4, <1>5 DEF Read
<1> QED
  BY <1>2, <1>5 DEF Reads

\* The server sends the first one, with the same number as before.
LEMMA SentOuts ==
  ASSUME NEW q \in Seq(ToClient), NEW o \in Seq(Nat), o # <<>>, NEW n \in Nat,
         NEW e \in BOOLEAN, NEW t, NEW t2, e => t2 = t, Outs(q, o, n, e, t),
         NEW m \in ToClient, IsOutput(m), m.data = o[1], m.seq = t2
  PROVE  Outs(Append(q, m), o, n, TRUE, t2)
<1>1. /\ DOMAIN q = 1 .. Len(q) /\ Len(q) \in Nat
      /\ DOMAIN Append(q, m) = 1 .. Len(q) + 1
      /\ Append(q, m)[Len(q) + 1] = m
      /\ \A i \in 1 .. Len(q) : Append(q, m)[i] = q[i]
  BY Appended
<1>2. PICK q2 : q2 = Append(q, m)
  OBVIOUS
<1>3. o[1] \in 1 .. n /\ 1 \in DOMAIN o
  BY DEF Outs, Backlog
<1>4. Sent(q2, o, n, TRUE, t2)
  BY <1>1, <1>2, <1>3 DEF Outs, Sent, Junk
<1>5. SentInOrder(q2)
  <2> SUFFICES ASSUME NEW i \in DOMAIN q2, NEW j \in DOMAIN q2, i < j,
                      IsOutput(q2[i]), IsOutput(q2[j])
               PROVE  \/ q2[i].data < q2[j].data
                      \/ q2[i].data = q2[j].data /\ q2[i].seq = q2[j].seq
    BY DEF SentInOrder
  <2>1. i \in DOMAIN q /\ q2[i] = q[i]
    BY <1>1, <1>2
  <2>2. CASE j \in DOMAIN q
    BY <1>1, <1>2, <2>1, <2>2 DEF Outs, SentInOrder
  <2>3. CASE j \notin DOMAIN q
    <3>1. q2[j] = m
      BY <1>1, <1>2, <2>3
    <3>2. \/ Past(q[i].data, o, n)
          \/ e /\ q[i].data = o[1] /\ q[i].seq = t
      BY <2>1 DEF Outs, Sent
    <3> QED
      BY <1>3, <2>1, <3>1, <3>2 DEF Past
  <2> QED
    BY <2>2, <2>3
<1> QED
  BY <1>2, <1>4, <1>5 DEF Outs

LEMMA SentReads ==
  ASSUME NEW q \in Seq(ToClient), NEW o \in Seq(Nat), o # <<>>, NEW n \in Nat,
         NEW e \in BOOLEAN, NEW t, NEW t2, e => t2 = t, NEW p, NEW r, Backlog(o, n),
         NEW m \in ToClient, IsOutput(m), m.data = o[1], m.seq = t2,
         Reads(p, q, o, n, e, t, r)
  PROVE  Reads(p, Append(q, m), o, n, TRUE, t2, r)
<1>1. /\ DOMAIN q = 1 .. Len(q) /\ Len(q) \in Nat
      /\ DOMAIN Append(q, m) = 1 .. Len(q) + 1
      /\ Append(q, m)[Len(q) + 1] = m
      /\ \A i \in 1 .. Len(q) : Append(q, m)[i] = q[i]
  BY Appended
<1>2. PICK q2 : q2 = Append(q, m)
  OBVIOUS
<1>3. 1 \in DOMAIN o
  OBVIOUS
<1>4. ASSUME NEW d, Read(d, q, o, n, e, t, r)
      PROVE  Read(d, q2, o, n, TRUE, t2, r)
  <2>1. \/ d < m.data
        \/ d = m.data /\ m.seq < r
    BY <1>3, <1>4 DEF Read, Past
  <2> QED
    BY <1>1, <1>2, <1>4, <2>1 DEF Read
<1> QED
  BY <1>2, <1>4 DEF Reads

\* The client prints the first frame, an output with the number expected, or
\* something else.
LEMMA PrintedReads ==
  ASSUME NEW q \in Seq(ToClient), q # <<>>, NEW o \in Seq(Nat), NEW n \in Nat,
         NEW e \in BOOLEAN, NEW t \in Nat, e => o # <<>>, Outs(q, o, n, e, t),
         NEW p \in Seq(Nat), NEW r \in Nat, Reads(p, q, o, n, e, t, r),
         IsOutput(q[1]) => q[1].seq = r
  PROVE  Reads(Append(p, q[1].data), Tail(q), o, n, e, t, r + 1)
<1>1. PICK d \in Nat : d = q[1].data
  BY ClientFrame, Shifted
<1>2. /\ DOMAIN p = 1 .. Len(p) /\ Len(p) \in Nat
      /\ DOMAIN Append(p, d) = 1 .. Len(p) + 1
      /\ Append(p, d)[Len(p) + 1] = d
      /\ \A i \in 1 .. Len(p) : Append(p, d)[i] = p[i]
  BY Appended
<1>3. PICK p2 : p2 = Append(p, d)
  OBVIOUS
<1>4. /\ DOMAIN q = 1 .. Len(q) /\ Len(q) \in Nat \ {0}
      /\ DOMAIN Tail(q) = 1 .. Len(q) - 1
      /\ \A i \in 1 .. Len(q) - 1 : Tail(q)[i] = q[i + 1]
  BY Shifted
<1>5. PICK q2 : q2 = Tail(q)
  OBVIOUS
<1>6. \A j \in DOMAIN q2 : j + 1 \in DOMAIN q /\ q2[j] = q[j + 1] /\ 1 < j + 1
  BY <1>4, <1>5
<1>7. \A j \in DOMAIN q : q[j].data \in Nat /\ q[j].seq \in Int
  BY ClientFrame
<1>8. 1 \in DOMAIN q
  BY <1>4
<1>9. ASSUME NEW x \in Nat, Read(x, q, o, n, e, t, r)
      PROVE  Read(x, q2, o, n, e, t, r + 1)
  <2>1. \/ Past(x, o, n)
        \/ e /\ x = o[1] /\ t < r + 1
    BY <1>9 DEF Read
  <2>2. ASSUME NEW j \in DOMAIN q2, IsOutput(q2[j])
        PROVE  x < q2[j].data \/ (x = q2[j].data /\ q2[j].seq < r + 1)
    BY <1>6, <1>7, <1>9, <2>2 DEF Read
  <2> QED
    BY <2>1, <2>2 DEF Read
<1>10. ASSUME d # Junk
       PROVE  /\ IsOutput(q[1]) /\ Read(d, q2, o, n, e, t, r + 1)
              /\ \A i \in DOMAIN p : p[i] # Junk => p[i] < d
  <2>1. IsOutput(q[1])
    BY <1>1, <1>8, <1>10 DEF Outs, Sent
  <2>2. \/ Past(d, o, n)
        \/ e /\ d = o[1] /\ t < r + 1
    BY <1>1, <1>8, <2>1 DEF Outs, Sent
  <2>3. ASSUME NEW j \in DOMAIN q2, IsOutput(q2[j])
        PROVE  d < q2[j].data \/ (d = q2[j].data /\ q2[j].seq < r + 1)
    <3>1. /\ j + 1 \in DOMAIN q /\ 1 < j + 1 /\ q2[j] = q[j + 1] /\ IsOutput(q[j + 1])
          /\ SentInOrder(q)
      BY <1>6, <2>3 DEF Outs
    <3>2. \/ q[1].data < q[j + 1].data
          \/ q[1].data = q[j + 1].data /\ q[1].seq = q[j + 1].seq
      BY <1>8, <2>1, <3>1 DEF SentInOrder
    <3> QED
      BY <1>1, <2>1, <3>1, <3>2
  <2>4. ASSUME NEW i \in DOMAIN p, p[i] # Junk
        PROVE  p[i] < d
    BY <1>1, <1>8, <2>1, <2>4 DEF Reads, Read
  <2> QED
    BY <2>1, <2>2, <2>3, <2>4 DEF Read
<1>11. \A i \in DOMAIN p : p[i] \in Nat
  OBVIOUS
<1>12. \A i \in DOMAIN p2 : p2[i] # Junk => Read(p2[i], q2, o, n, e, t, r + 1)
  BY <1>2, <1>3, <1>9, <1>10, <1>11 DEF Reads
<1>13. \A i, j \in DOMAIN p2 : i < j /\ p2[i] # Junk /\ p2[j] # Junk => p2[i] < p2[j]
  <2> SUFFICES ASSUME NEW i \in DOMAIN p2, NEW j \in DOMAIN p2, i < j,
                      p2[i] # Junk, p2[j] # Junk
               PROVE  p2[i] < p2[j]
    OBVIOUS
  <2>1. i \in DOMAIN p /\ p2[i] = p[i]
    BY <1>2, <1>3
  <2>2. CASE j \in DOMAIN p
    BY <1>2, <1>3, <2>1, <2>2 DEF Reads
  <2>3. CASE j \notin DOMAIN p
    <3>1. p2[j] = d
      BY <1>2, <1>3, <2>3
    <3> QED
      BY <1>10, <2>1, <3>1
  <2> QED
    BY <2>2, <2>3
<1> QED
  BY <1>1, <1>3, <1>5, <1>12, <1>13 DEF Reads

-----------------------------------------------------------------------------
(* Every step keeps the order of the outputs.                              *)

LEMMA OutTypes ==
  ASSUME Types
  PROVE  /\ Outputs \in Nat /\ server.seq \in Nat /\ client.recv \in Nat
         /\ server.out \in Seq(Nat) /\ Waiting \in BOOLEAN /\ (Waiting => server.out # <<>>)
         /\ printed \in Seq(Nat) /\ toClient \in Seq(ToClient)
<1>1. Outputs \in Nat
  <2>1. /\ left["outputs"] \in Nat /\ scenario["outputs"] \in Nat
        /\ left["outputs"] <= scenario["outputs"]
    BY Scene DEF Types, Counts
  <2>2. scenario.outputs = scenario["outputs"]
    OBVIOUS
  <2> QED
    BY <2>1, <2>2 DEF Outputs
<1>2. toClient \in Seq(ToClient) /\ printed \in Seq(Nat)
  BY DEF Types, FrameTypes
<1> QED
  BY <1>1, <1>2 DEF Types, ClientTypes, ClientState, ServerTypes, ServerState, Waiting

SameReader == /\ printed' = printed /\ client'.recv = client.recv
              /\ Working'.mode = Working.mode

\* Steps that neither send nor print an output, nor end one.
LEMMA QuietOut ==
  ASSUME Types, Types', OutInv, SameReader, Outputs' = Outputs, server'.out = server.out,
         server'.pc = server.pc, server'.seq = server.seq \/ ~ Waiting,
         NEW k \in {0, 1}, Fewer(toClient', toClient, k)
  PROVE  OutInv'
<1>1. toClient' \in Seq(ToClient) /\ toClient \in Seq(ToClient) /\ Waiting \in BOOLEAN
  BY OutTypes DEF Types, FrameTypes
<1>2. Waiting' = Waiting /\ (Waiting => server'.seq = server.seq)
  BY DEF Waiting
<1>3. Outs(toClient', server.out, Outputs, Waiting, server'.seq)
  BY <1>1, <1>2, FewerOuts DEF OutInv
<1>4. ASSUME Working.mode = "shell"
      PROVE  Reads(printed, toClient', server.out, Outputs, Waiting, server'.seq, client.recv)
  BY <1>1, <1>2, <1>4, FewerReads DEF OutInv
<1> QED
  BY <1>2, <1>3, <1>4 DEF OutInv, SameReader

LEMMA SameFrames ==
  ASSUME NEW q \in Seq(ToClient)
  PROVE  Fewer(q, q, 0)
<1>1. \A i \in DOMAIN q : i + 0 = i
  OBVIOUS
<1> QED
  BY <1>1 DEF Fewer

LEMMA LessFrames ==
  ASSUME NEW q \in Seq(ToClient), q # <<>>
  PROVE  Fewer(Tail(q), q, 1)
<1>1. \A i \in DOMAIN Tail(q) : i + 1 \in DOMAIN q /\ Tail(q)[i] = q[i + 1]
  BY Shifted
<1>2. PICK q2 : q2 = Tail(q)
  OBVIOUS
<1> QED
  BY <1>1, <1>2 DEF Fewer

LEMMA MoreFrames ==
  ASSUME NEW q \in Seq(ToClient), NEW m \in ToClient, ~ IsOutput(m), m.data = Junk
  PROVE  Fewer(Append(q, m), q, 0)
<1>1. /\ DOMAIN q = 1 .. Len(q) /\ Len(q) \in Nat
      /\ DOMAIN Append(q, m) = 1 .. Len(q) + 1
      /\ Append(q, m)[Len(q) + 1] = m
      /\ \A i \in 1 .. Len(q) : Append(q, m)[i] = q[i]
  BY Appended
<1>2. PICK q2 : q2 = Append(q, m)
  OBVIOUS
<1>3. \A i \in DOMAIN q2 : q2[i] = m \/ (i + 0 \in DOMAIN q /\ q2[i] = q[i + 0])
  BY <1>1, <1>2
<1> QED
  BY <1>2, <1>3 DEF Fewer

LEMMA SameOutputs ==
  ASSUME Types,
         \/ UNCHANGED <<scenario, left>>
         \/ UNCHANGED scenario /\ \E k \in {"commands", "losses", "late", "full"} : Spend(k)
  PROVE  Outputs' = Outputs
<1>1. CASE UNCHANGED <<scenario, left>>
  BY <1>1 DEF Outputs
<1>2. ASSUME UNCHANGED scenario, NEW k \in {"commands", "losses", "late", "full"}, Spend(k)
      PROVE  Outputs' = Outputs
  <2>1. k \in DOMAIN left /\ "outputs" \in DOMAIN left \ {k}
    BY DEF Types, Counts
  <2>2. left'["outputs"] = left["outputs"]
    BY <1>2, <2>1, Spending DEF Types
  <2> QED
    BY <1>2, <2>2 DEF Outputs
<1> QED
  BY <1>1, <1>2

\* What the client does for its files, or to start its shell, is quiet.
LEMMA ClientQuiet ==
  ASSUME Types, Types', OutInv,
         \/ PutFile \/ SendChunk \/ StartShell \/ ReadAnswer \/ NoAnswer \/ NoAnswerYet
         \/ Type
  PROVE  OutInv'
<1>1. /\ UNCHANGED <<scenario, session, server, printed>>
      /\ \/ UNCHANGED toClient
         \/ toClient # <<>> /\ toClient' = Tail(toClient)
  BY DEF PutFile, SendChunk, StartShell, ReadAnswer, NoAnswer, NoAnswerYet, Type
<1>2. \/ UNCHANGED <<scenario, left>>
      \/ UNCHANGED scenario /\ \E k \in {"commands", "losses", "late", "full"} : Spend(k)
  BY DEF PutFile, SendChunk, StartShell, ReadAnswer, NoAnswer, NoAnswerYet, Type
<1>3. client'.recv = client.recv
  <2>0. client \in ClientState
    BY DEF Types, ClientTypes
  <2>1. CASE PutFile
    BY <2>0, <2>1 DEF PutFile, ClientState
  <2>2. CASE SendChunk
    BY <2>0, <2>2 DEF SendChunk, ClientState
  <2>3. CASE StartShell
    BY <2>0, <2>3 DEF StartShell, ClientState
  <2>4. CASE ReadAnswer \/ NoAnswer \/ NoAnswerYet
    <3>1. /\ client.pc = "answer"
          /\ client' = client \/ client' \in {Failed(client), Answered(client)}
      BY <2>4 DEF ReadAnswer, NoAnswer, NoAnswerYet
    <3> QED
      BY <3>1, ClientGoesOn DEF Types
  <2>5. CASE Type
    BY <2>5 DEF Type
  <2> QED
    BY <2>1, <2>2, <2>3, <2>4, <2>5
<1>4. SameReader
  BY <1>1, <1>3 DEF SameReader, Working
<1>5. Outputs' = Outputs
  BY <1>2, SameOutputs
<1>6. toClient \in Seq(ToClient)
  BY OutTypes
<1>7. PICK k \in {0, 1} : Fewer(toClient', toClient, k)
  BY <1>1, <1>6, SameFrames, LessFrames
<1> QED
  BY <1>1, <1>4, <1>5, <1>7, QuietOut

\* So is what the server does for its files, and a loss.
LEMMA ServerQuiet ==
  ASSUME Types, Types', OutInv, ProcessOther \/ ContinueReceivingFile \/ DiskFull \/ Lose
  PROVE  OutInv'
<1>1. UNCHANGED <<scenario, session, client, printed>>
  BY DEF ProcessOther, ContinueReceivingFile, DiskFull, Lose
<1>2. \/ UNCHANGED <<scenario, left>>
      \/ UNCHANGED scenario /\ \E k \in {"commands", "losses", "late", "full"} : Spend(k)
  BY DEF ProcessOther, ContinueReceivingFile, DiskFull, Lose
<1>3. SameReader
  BY <1>1 DEF SameReader, Working
<1>4. Outputs' = Outputs
  BY <1>2, SameOutputs
<1>5. toClient \in Seq(ToClient)
  BY OutTypes
<1>6. /\ server'.out = server.out /\ server'.pc = server.pc
      /\ server'.seq = server.seq \/ ~ Waiting
  <2>1. CASE ProcessOther
    BY <2>1, OtherServer DEF ProcessOther, Waiting
  <2>2. CASE ContinueReceivingFile
    BY <2>2, ChunkServer DEF ContinueReceivingFile, Waiting
  <2>3. CASE DiskFull
    BY <2>3, FullServer DEF DiskFull, Waiting
  <2>4. CASE Lose
    BY <2>4 DEF Lose
  <2> QED
    BY <2>1, <2>2, <2>3, <2>4
<1>7. \/ UNCHANGED toClient
      \/ toClient # <<>> /\ toClient' = Tail(toClient)
      \/ \E t \in Reply, n \in Nat : toClient' = Append(toClient, Msg(t, n, Junk))
  <2>1. CASE ProcessOther
    BY <2>1 DEF ProcessOther, Reply
  <2>2. CASE ContinueReceivingFile
    <3>1. PICK sv : sv = [server EXCEPT !.known = TRUE]
      OBVIOUS
    <3>2. sv.recv \in Nat
      BY <3>1, ServerGoesOn DEF ServerState
    <3>3. \/ UNCHANGED toClient
          \/ toClient' = Append(toClient, Msg("recv_ok_msg", sv.recv, Junk))
          \/ toClient' = Append(toClient, Msg("recv_err_msg", 0, Junk))
      BY <2>2, <3>1 DEF ContinueReceivingFile
    <3> QED
      BY <3>2, <3>3 DEF Reply
  <2>3. CASE DiskFull
    BY <2>3 DEF DiskFull, Reply
  <2>4. CASE Lose
    BY <2>4 DEF Lose
  <2> QED
    BY <2>1, <2>2, <2>3, <2>4
<1>8. PICK k \in {0, 1} : Fewer(toClient', toClient, k)
  <2>1. ASSUME NEW t \in Reply, NEW n \in Nat, toClient' = Append(toClient, Msg(t, n, Junk))
        PROVE  Fewer(toClient', toClient, 0)
    <3>1. PICK m : m = Msg(t, n, Junk)
      OBVIOUS
    <3>2. m \in ToClient /\ ~ IsOutput(m) /\ m.data = Junk
      BY <3>1 DEF Msg, ToClient, MsgType, Reply, IsOutput, Junk
    <3> QED
      BY <1>5, <2>1, <3>1, <3>2, MoreFrames
  <2> QED
    BY <1>5, <1>7, <2>1, SameFrames, LessFrames
<1> QED
  BY <1>3, <1>4, <1>6, <1>8, QuietOut

LEMMA OutputOut ==
  ASSUME Types, Types', OutInv,
         ForwardOutput \/ ReadAcknowledgement \/ NoAcknowledgement \/ NoAcknowledgementYet
  PROVE  OutInv'
<1>1. UNCHANGED <<scenario, session, client, printed>>
  BY DEF ForwardOutput, ReadAcknowledgement, NoAcknowledgement, NoAcknowledgementYet
<1>2. Outputs' = Outputs
  <2>1. \/ UNCHANGED <<scenario, left>>
        \/ UNCHANGED scenario /\ \E k \in {"commands", "losses", "late", "full"} : Spend(k)
    BY DEF ForwardOutput, ReadAcknowledgement, NoAcknowledgement, NoAcknowledgementYet
  <2> QED
    BY <2>1, SameOutputs
<1>3. SameReader
  BY <1>1 DEF SameReader, Working
<1>4. /\ Outputs \in Nat /\ server.seq \in Nat /\ client.recv \in Nat
      /\ server.out \in Seq(Nat) /\ Waiting \in BOOLEAN /\ toClient \in Seq(ToClient)
  BY OutTypes
<1>5. Outs(toClient, server.out, Outputs, Waiting, server.seq)
      /\ Backlog(server.out, Outputs)
  BY DEF OutInv, Outs
<1>6. CASE SendsOutput
  <2>1. PICK m : m = Msg("shell_response_msg", server'.seq, Head(server.out))
    OBVIOUS
  <2>2. server.out # <<>> /\ server'.out = server.out /\ toClient' = Append(toClient, m)
        /\ server'.pc = "answer" /\ (Waiting => server'.seq = server.seq)
    BY <1>6, <2>1 DEF SendsOutput, Waiting
  <2>3. server'.seq \in Nat
    BY DEF Types, ServerTypes, ServerState
  <2>4. Head(server.out) = server.out[1] /\ server.out[1] \in Nat
    BY <1>4, <2>2, Shifted
  <2>5. m \in ToClient /\ IsOutput(m) /\ m.data = server.out[1] /\ m.seq = server'.seq
    BY <2>1, <2>3, <2>4 DEF Msg, ToClient, MsgType, IsOutput
  <2>6. Waiting' = TRUE
    BY <2>2 DEF Waiting
  <2>7. Outs(Append(toClient, m), server.out, Outputs, TRUE, server'.seq)
    BY <1>4, <1>5, <2>2, <2>5, SentOuts
  <2>8. ASSUME Working.mode = "shell"
        PROVE  Reads(printed, Append(toClient, m), server.out, Outputs, TRUE, server'.seq,
                     client.recv)
    <3>1. Reads(printed, toClient, server.out, Outputs, Waiting, server.seq, client.recv)
      BY <2>8 DEF OutInv
    <3> QED
      BY <1>4, <1>5, <2>2, <2>5, <3>1, SentReads
  <2> QED
    BY <1>2, <1>3, <2>2, <2>6, <2>7, <2>8 DEF OutInv, SameReader
<1>7. CASE EndsOutput
  <2>1. server.out # <<>> /\ server'.out = Tail(server.out) /\ toClient' = toClient
        /\ Waiting' = FALSE
    BY <1>7 DEF EndsOutput, Waiting
  <2>2. Outs(toClient, Tail(server.out), Outputs, FALSE, server'.seq)
    BY <1>4, <1>5, <2>1, EndedOuts
  <2>3. ASSUME Working.mode = "shell"
        PROVE  Reads(printed, toClient, Tail(server.out), Outputs, FALSE, server'.seq,
                     client.recv)
    <3>1. Reads(printed, toClient, server.out, Outputs, Waiting, server.seq, client.recv)
      BY <2>3 DEF OutInv
    <3> QED
      BY <1>4, <1>5, <2>1, <3>1, EndedReads
  <2> QED
    BY <1>2, <1>3, <2>1, <2>2, <2>3 DEF OutInv, SameReader
<1>8. CASE UNCHANGED <<server, toClient>>
  <2>1. Fewer(toClient', toClient, 0)
    BY <1>4, <1>8, SameFrames
  <2> QED
    BY <1>2, <1>3, <1>8, <2>1, QuietOut
<1> QED
  BY <1>6, <1>7, <1>8, OutputSteps

LEMMA WritingOut ==
  ASSUME Types, Types', OutInv, ShellWrites
  PROVE  OutInv'
<1>1. UNCHANGED <<session, scenario, client, toClient, printed>>
  BY DEF ShellWrites, Spend
<1>2. /\ Outputs \in Nat /\ server.out \in Seq(Nat) /\ Waiting \in BOOLEAN
      /\ (Waiting => server.out # <<>>)
      /\ toClient \in Seq(ToClient) /\ printed \in Seq(Nat)
  BY OutTypes
<1>3. /\ server'.out = Append(server.out, Outputs + 1) /\ Outputs' = Outputs + 1
      /\ Waiting' = Waiting /\ server'.seq = server.seq
  BY WritingServer DEF Waiting
<1>4. Outs(toClient, Append(server.out, Outputs + 1), Outputs + 1, Waiting, server.seq)
  BY <1>2, WrittenOuts DEF OutInv
<1>5. ASSUME Working.mode = "shell"
      PROVE  Reads(printed, toClient, Append(server.out, Outputs + 1), Outputs + 1, Waiting,
                   server.seq, client.recv)
  BY <1>2, <1>5, WrittenReads DEF OutInv
<1>6. Working' = Working
  BY <1>1 DEF Working
<1> QED
  BY <1>1, <1>3, <1>4, <1>5, <1>6 DEF OutInv

\* The client reads a frame, and prints it or not.
LEMMA ReadingOut ==
  ASSUME Types, Types', OutInv, ReadOutput
  PROVE  OutInv'
<1> DEFINE m == Head(toClient)
           n == FirstWord(m)
<1>1. /\ UNCHANGED <<session, scenario, server, left>>
      /\ toClient # <<>> /\ toClient' = Tail(toClient)
  BY DEF ReadOutput
<1>2. /\ Outputs' = Outputs /\ Working' = Working /\ Waiting' = Waiting
      /\ server'.seq = server.seq /\ server'.out = server.out
  BY <1>1 DEF Outputs, Working, Waiting
<1>3. /\ Outputs \in Nat /\ server.seq \in Nat /\ client.recv \in Nat
      /\ server.out \in Seq(Nat) /\ Waiting \in BOOLEAN /\ (Waiting => server.out # <<>>)
      /\ printed \in Seq(Nat) /\ toClient \in Seq(ToClient) /\ toClient' \in Seq(ToClient)
  BY OutTypes DEF Types, FrameTypes
<1>4. Fewer(toClient', toClient, 1)
  BY <1>1, <1>3, LessFrames
<1>5. Outs(toClient', server.out, Outputs, Waiting, server.seq)
  BY <1>3, <1>4, FewerOuts DEF OutInv
<1>6. ASSUME Working.mode = "shell"
      PROVE  Reads(printed', toClient', server.out, Outputs, Waiting, server.seq, client'.recv)
  <2>1. CASE Prints(n)
    <3>1. printed' = Append(printed, m.data) /\ client' = [client EXCEPT !.recv = @ + 1]
      BY <2>1 DEF ReadOutput
    <3>2. client'.recv = client.recv + 1
      <4>1. client \in ClientState
        BY DEF Types, ClientTypes
      <4>2. PICK r \in Nat : r = client.recv + 1
        BY <1>3
      <4>3. client' = [client EXCEPT !.recv = r]
        BY <3>1, <4>2
      <4> QED
        BY <4>1, <4>2, <4>3 DEF ClientState
    <3>3. m = toClient[1]
      BY <1>1, <1>3, Shifted
    <3>4. IsOutput(toClient[1]) => toClient[1].seq = client.recv
      BY <1>6, <2>1, <3>3 DEF Prints, Expected, FirstWord, IsOutput
    <3>5. Outs(toClient, server.out, Outputs, Waiting, server.seq)
          /\ Reads(printed, toClient, server.out, Outputs, Waiting, server.seq, client.recv)
      BY <1>6 DEF OutInv
    <3>6. Reads(Append(printed, toClient[1].data), Tail(toClient), server.out, Outputs,
                Waiting, server.seq, client.recv + 1)
      BY <1>1, <1>3, <3>4, <3>5, PrintedReads
    <3> QED
      BY <1>1, <3>1, <3>2, <3>3, <3>6
  <2>2. CASE ~ Prints(n)
    <3>1. printed' = printed /\ client' = client
      BY <2>2 DEF ReadOutput
    <3>2. Reads(printed, toClient, server.out, Outputs, Waiting, server.seq, client.recv)
      BY <1>6 DEF OutInv
    <3>3. Reads(printed, toClient', server.out, Outputs, Waiting, server.seq, client.recv)
      BY <1>3, <1>4, <3>2, FewerReads
    <3> QED
      BY <3>1, <3>3
  <2> QED
    BY <2>1, <2>2
<1> QED
  BY <1>2, <1>5, <1>6 DEF OutInv

LEMMA NextClientOut ==
  ASSUME Types, OutInv, NextClient
  PROVE  OutInv'
<1>1. /\ UNCHANGED <<scenario, server, left>>
      /\ toClient' = <<>> /\ printed' = <<>>
  BY DEF NextClient
<1>2. Outputs' = Outputs /\ Waiting' = Waiting
  BY <1>1 DEF Outputs, Waiting
<1>3. Outs(<<>>, server.out, Outputs, Waiting, server.seq)
  BY DEF OutInv, Outs, Sent, SentInOrder
<1>4. Reads(<<>>, <<>>, server.out, Outputs, Waiting, server.seq, client'.recv)
  BY DEF Reads
<1> QED
  BY <1>1, <1>2, <1>3, <1>4 DEF OutInv

LEMMA InitOut == Init => OutInv
<1> SUFFICES ASSUME Init PROVE OutInv
  OBVIOUS
<1>1. server.out = <<>> /\ toClient = <<>> /\ printed = <<>>
  BY DEF Init
<1>2. Outs(<<>>, <<>>, Outputs, Waiting, server.seq)
  BY DEF Outs, Backlog, Sent, SentInOrder
<1>3. Reads(<<>>, <<>>, <<>>, Outputs, Waiting, server.seq, client.recv)
  BY DEF Reads
<1> QED
  BY <1>1, <1>2, <1>3 DEF OutInv

LEMMA NextOut ==
  ASSUME Types, Types', OutInv, [Next]_vars
  PROVE  OutInv'
<1>1. CASE UNCHANGED vars
  BY <1>1 DEF vars, OutInv, Outputs, Waiting, Working
<1> QED
  BY <1>1, ClientQuiet, ServerQuiet, OutputOut, WritingOut, ReadingOut, NextClientOut
     DEF Next, ClientStep, ServerStep, Timeout

\* The output of the shell is printed in order and none of it twice, for any
\* clients one after the other, and any frames lost or late: all frames that
\* carry one output have the same number (OutInv), and a client that
\* counts is past that number once its main printed the output.
THEOREM OutputInOrder == Spec => []PrintedInOrder
<1>1. OutInv => PrintedInOrder
  BY DEF OutInv, PrintedInOrder, Reads, Real
<1>2. Init => Types /\ OutInv
  BY InitTypes, InitOut
<1>3. Types /\ OutInv /\ [Next]_vars => Types' /\ OutInv'
  BY NextTypes, NextOut
<1> QED
  BY <1>1, <1>2, <1>3, PTL DEF Spec

-----------------------------------------------------------------------------
(* Files                                                                   *)

Name(m)  == m.type = "put_name_msg"
End(m)   == m.type = "transfer_end_msg"
Chunk(m) == m.type = "transfer_cont_msg"

\* What the server will be at when it has dealt with all that comes before
\* place i of q, if it is at fd, open, recv now: receiving file f; not
\* receiving; expecting chunk n.
Named(q, fd, i, f) ==
  \/ \E j \in 1 .. i - 1 : /\ Name(q[j]) /\ q[j].data = f
                           /\ \A k \in j + 1 .. i - 1 : ~ Name(q[k])
  \/ fd = f /\ \A k \in 1 .. i - 1 : ~ Name(q[k])
Closed(q, open, i) ==
  \/ \E j \in 1 .. i - 1 : End(q[j]) /\ \A k \in j + 1 .. i - 1 : ~ Name(q[k])
  \/ ~ open /\ \A k \in 1 .. i - 1 : ~ Name(q[k])
Expects(q, open, recv, i, n) ==
  \/ n = 1 /\ \E j \in 1 .. i - 1 : /\ Name(q[j])
                                    /\ \A k \in j + 1 .. i - 1 : ~ (End(q[k]) \/ Chunk(q[k]))
  \/ open /\ recv = n /\ \A k \in 1 .. i - 1 : ~ (Name(q[k]) \/ End(q[k]) \/ Chunk(q[k]))

\* A chunk finds its own file open, or none if a name was missed (nm); so will
\* the next chunk of file f, if the client is sending one (snd).
Finds(q, fd, open, nm, i, f) == Named(q, fd, i, f) \/ (nm /\ Closed(q, open, i))
Found(q, fd, open, nm, snd, f) ==
  /\ \A i \in DOMAIN q : Chunk(q[i]) => Finds(q, fd, open, nm, i, FileOf(q[i]))
  /\ snd => Finds(q, fd, open, nm, Len(q) + 1, f)

\* A file is closed before the next one is named.
Shut(q, open, snd) ==
  /\ \A i \in DOMAIN q : Name(q[i]) => Closed(q, open, i)
  /\ ~ snd => Closed(q, open, Len(q) + 1)

\* No chunk is refused: the one under way is the one that is expected, or its
\* answer p[i] is under way. So none is given up.
NoChunk(q) == \A i \in DOMAIN q : ~ Chunk(q[i])
NoReply(p) == \A i \in DOMAIN p : p[i].type \notin Reply
NoStart(q) == \A i \in DOMAIN q : q[i].type # "start_shell_msg"
Asked(q, p, open, recv, n) ==
  /\ q # <<>> /\ Chunk(q[Len(q)]) /\ q[Len(q)].seq = n
  /\ \A k \in 1 .. Len(q) - 1 : ~ Chunk(q[k])
  /\ Expects(q, open, recv, Len(q), n)
  /\ NoReply(p)
Told(q, p, open, recv, n) ==
  /\ NoChunk(q) /\ Expects(q, open, recv, Len(q) + 1, n + 1)
  /\ \E i \in DOMAIN p : IsFor(p[i], n) /\ \A k \in DOMAIN p : p[k].type \in Reply => k = i
Steady(q, p, open, recv, pc, n) ==
  /\ NoStart(q)
  /\ pc # "answer" => NoChunk(q) /\ NoReply(p)
  /\ pc = "chunk" => Expects(q, open, recv, Len(q) + 1, n)
  /\ pc = "answer" => Asked(q, p, open, recv, n) \/ Told(q, p, open, recv, n)

\* Shut and Steady hold before the first mishap, what follows from them as long
\* as no name was missed, or nothing else went wrong.
NameMissed == "put_name_msg" \in missed
Mild == ~ NameMissed \/ trouble <= 1
Written ==
  /\ \A f \in FileNames : \E n \in Nat : disk[f] = Chunks(f, n)
  /\ server.receiving => server.recv > 0 /\ disk[server.fd] = Chunks(server.fd, server.recv - 1)
FoundInv == Mild => Found(toServer, server.fd, server.receiving, NameMissed, Sending,
                          <<session, client.file>>)
ShutInv == trouble = 0 => Shut(toServer, server.receiving, Sending)
SteadyInv == trouble = 0 /\ Working.mode = "put" =>
  Steady(toServer, toClient, server.receiving, server.recv, client.pc, client.seq)
WrittenInv == Mild /\ NeverFull => Written
FileInv == FoundInv /\ ShutInv /\ SteadyInv /\ WrittenInv

-----------------------------------------------------------------------------
(* What becomes of these when a frame joins the queue, or leaves it.       *)

LEMMA NamedOn ==
  ASSUME NEW q \in Seq(ToServer), NEW m \in ToServer, NEW i \in 1 .. Len(q) + 1,
         NEW fd, NEW f, Named(q, fd, i, f)
  PROVE  Named(Append(q, m), fd, i, f)
<1>1. PICK q2 : q2 = Append(q, m)
  OBVIOUS
<1>2. \A k \in 1 .. i - 1 : q2[k] = q[k]
  BY <1>1, Appended
<1>3. CASE fd = f /\ \A k \in 1 .. i - 1 : ~ Name(q[k])
  BY <1>1, <1>2, <1>3 DEF Named
<1>4. ASSUME NEW j \in 1 .. i - 1, Name(q[j]), q[j].data = f,
             \A k \in j + 1 .. i - 1 : ~ Name(q[k])
      PROVE  Named(q2, fd, i, f)
  <2>1. q2[j] = q[j]
    BY <1>2
  <2>2. \A k \in j + 1 .. i - 1 : q2[k] = q[k]
    BY <1>2
  <2> QED
    BY <1>4, <2>1, <2>2 DEF Named
<1> QED
  BY <1>1, <1>3, <1>4 DEF Named

LEMMA ClosedOn ==
  ASSUME NEW q \in Seq(ToServer), NEW m \in ToServer, NEW i \in 1 .. Len(q) + 1,
         NEW open, Closed(q, open, i)
  PROVE  Closed(Append(q, m), open, i)
<1>1. PICK q2 : q2 = Append(q, m)
  OBVIOUS
<1>2. \A k \in 1 .. i - 1 : q2[k] = q[k]
  BY <1>1, Appended
<1>3. CASE ~ open /\ \A k \in 1 .. i - 1 : ~ Name(q[k])
  BY <1>1, <1>2, <1>3 DEF Closed
<1>4. ASSUME NEW j \in 1 .. i - 1, End(q[j]), \A k \in j + 1 .. i - 1 : ~ Name(q[k])
      PROVE  Closed(q2, open, i)
  <2>1. q2[j] = q[j]
    BY <1>2
  <2>2. \A k \in j + 1 .. i - 1 : q2[k] = q[k]
    BY <1>2
  <2> QED
    BY <1>4, <2>1, <2>2 DEF Closed
<1> QED
  BY <1>1, <1>3, <1>4 DEF Closed

LEMMA ExpectsOn ==
  ASSUME NEW q \in Seq(ToServer), NEW m \in ToServer, NEW i \in 1 .. Len(q) + 1,
         NEW open, NEW recv, NEW n, Expects(q, open, recv, i, n)
  PROVE  Expects(Append(q, m), open, recv, i, n)
<1>1. PICK q2 : q2 = Append(q, m)
  OBVIOUS
<1>2. \A k \in 1 .. i - 1 : q2[k] = q[k]
  BY <1>1, Appended
<1>3. CASE open /\ recv = n
           /\ \A k \in 1 .. i - 1 : ~ (Name(q[k]) \/ End(q[k]) \/ Chunk(q[k]))
  BY <1>1, <1>2, <1>3 DEF Expects
<1>4. ASSUME n = 1, NEW j \in 1 .. i - 1, Name(q[j]),
             \A k \in j + 1 .. i - 1 : ~ (End(q[k]) \/ Chunk(q[k]))
      PROVE  Expects(q2, open, recv, i, n)
  <2>1. q2[j] = q[j]
    BY <1>2
  <2>2. \A k \in j + 1 .. i - 1 : q2[k] = q[k]
    BY <1>2
  <2> QED
    BY <1>4, <2>1, <2>2 DEF Expects
<1> QED
  BY <1>1, <1>3, <1>4 DEF Expects

\* At the end of the queue, a name, an end, or what is neither.
LEMMA NamedNew ==
  ASSUME NEW q \in Seq(ToServer), NEW m \in ToServer, NEW fd, NEW f,
         \/ Name(m) /\ m.data = f
         \/ ~ Name(m) /\ Named(q, fd, Len(q) + 1, f)
  PROVE  Named(Append(q, m), fd, Len(q) + 2, f)
<1>0. PICK q2 : q2 = Append(q, m)
  OBVIOUS
<1>1. PICK n \in Nat : q2 = Append(q, m) /\ n = Len(q) + 1
  BY <1>0
<1>2. q2[n] = m /\ (\A k \in 1 .. n - 1 : q2[k] = q[k]) /\ (n + 1) - 1 = n /\ n > 0
      /\ n + 1 = Len(q) + 2
  BY <1>1, Appended
<1>3. CASE Name(m) /\ m.data = f
  <2>1. n \in 1 .. n /\ \A k \in n + 1 .. n : FALSE
    BY <1>2
  <2> QED
    BY <1>1, <1>2, <1>3, <2>1 DEF Named
<1>4. CASE ~ Name(m) /\ Named(q, fd, n, f)
  <2>1. CASE fd = f /\ \A k \in 1 .. n - 1 : ~ Name(q[k])
    <3>1. \A k \in 1 .. n : ~ Name(q2[k])
      <4> SUFFICES ASSUME NEW k \in 1 .. n PROVE ~ Name(q2[k])
        OBVIOUS
      <4>1. k = n \/ k \in 1 .. n - 1
        OBVIOUS
      <4> QED
        BY <1>2, <1>4, <2>1, <4>1
    <3> QED
      BY <1>1, <1>2, <2>1, <3>1 DEF Named
  <2>2. ASSUME NEW j \in 1 .. n - 1, Name(q[j]), q[j].data = f,
               \A k \in j + 1 .. n - 1 : ~ Name(q[k])
        PROVE  Named(q2, fd, n + 1, f)
    <3>1. \A k \in j + 1 .. n : ~ Name(q2[k])
      <4> SUFFICES ASSUME NEW k \in j + 1 .. n PROVE ~ Name(q2[k])
        OBVIOUS
      <4>1. k = n \/ (k \in j + 1 .. n - 1 /\ k \in 1 .. n - 1)
        OBVIOUS
      <4> QED
        BY <1>2, <1>4, <2>2, <4>1
    <3>2. j \in 1 .. n /\ q2[j] = q[j]
      BY <1>2
    <3> QED
      BY <1>2, <2>2, <3>1, <3>2 DEF Named
  <2> QED
    BY <1>1, <1>2, <1>4, <2>1, <2>2 DEF Named
<1> QED
  BY <1>1, <1>3, <1>4

LEMMA ClosedNew ==
  ASSUME NEW q \in Seq(ToServer), NEW m \in ToServer, NEW open,
         \/ End(m)
         \/ ~ Name(m) /\ Closed(q, open, Len(q) + 1)
  PROVE  Closed(Append(q, m), open, Len(q) + 2)
<1>0. PICK q2 : q2 = Append(q, m)
  OBVIOUS
<1>1. PICK n \in Nat : q2 = Append(q, m) /\ n = Len(q) + 1
  BY <1>0
<1>2. q2[n] = m /\ (\A k \in 1 .. n - 1 : q2[k] = q[k]) /\ (n + 1) - 1 = n /\ n > 0
      /\ n + 1 = Len(q) + 2
  BY <1>1, Appended
<1>3. CASE End(m)
  <2>1. n \in 1 .. n /\ \A k \in n + 1 .. n : FALSE
    BY <1>2
  <2> QED
    BY <1>1, <1>2, <1>3, <2>1 DEF Closed
<1>4. CASE ~ Name(m) /\ Closed(q, open, n)
  <2>1. CASE ~ open /\ \A k \in 1 .. n - 1 : ~ Name(q[k])
    <3>1. \A k \in 1 .. n : ~ Name(q2[k])
      <4> SUFFICES ASSUME NEW k \in 1 .. n PROVE ~ Name(q2[k])
        OBVIOUS
      <4>1. k = n \/ k \in 1 .. n - 1
        OBVIOUS
      <4> QED
        BY <1>2, <1>4, <2>1, <4>1
    <3> QED
      BY <1>1, <1>2, <2>1, <3>1 DEF Closed
  <2>2. ASSUME NEW j \in 1 .. n - 1, End(q[j]), \A k \in j + 1 .. n - 1 : ~ Name(q[k])
        PROVE  Closed(q2, open, n + 1)
    <3>1. \A k \in j + 1 .. n : ~ Name(q2[k])
      <4> SUFFICES ASSUME NEW k \in j + 1 .. n PROVE ~ Name(q2[k])
        OBVIOUS
      <4>1. k = n \/ (k \in j + 1 .. n - 1 /\ k \in 1 .. n - 1)
        OBVIOUS
      <4> QED
        BY <1>2, <1>4, <2>2, <4>1
    <3>2. j \in 1 .. n /\ q2[j] = q[j]
      BY <1>2
    <3> QED
      BY <1>2, <2>2, <3>1, <3>2 DEF Closed
  <2> QED
    BY <1>1, <1>2, <1>4, <2>1, <2>2 DEF Closed
<1> QED
  BY <1>1, <1>3, <1>4

LEMMA ExpectsNew ==
  ASSUME NEW q \in Seq(ToServer), NEW m \in ToServer, NEW open, NEW recv, Name(m)
  PROVE  Expects(Append(q, m), open, recv, Len(q) + 2, 1)
<1>0. PICK q2 : q2 = Append(q, m)
  OBVIOUS
<1>1. PICK n \in Nat : q2 = Append(q, m) /\ n = Len(q) + 1
  BY <1>0
<1>2. q2[n] = m /\ (n + 1) - 1 = n /\ n > 0 /\ n + 1 = Len(q) + 2
  BY <1>1, Appended
<1>3. n \in 1 .. n /\ \A k \in n + 1 .. n : FALSE
  BY <1>2
<1> QED
  BY <1>1, <1>2, <1>3 DEF Expects

\* The server takes the first one.
LEMMA Behind ==
  ASSUME NEW q \in Seq(ToServer), q # <<>>, NEW i \in 1 .. Len(q), NEW q2, q2 = Tail(q)
  PROVE  /\ \A k \in 1 .. i - 1 : q2[k] = q[k + 1] /\ k + 1 \in 2 .. i
         /\ \A k \in 2 .. i : q2[k - 1] = q[k] /\ k - 1 \in 1 .. i - 1 /\ k \in 1 .. i
         /\ 1 \in 1 .. i /\ i \in Nat
BY Shifted

LEMMA NamedTail ==
  ASSUME NEW q \in Seq(ToServer), q # <<>>, NEW i \in 1 .. Len(q), NEW fd, NEW fd2, NEW f,
         fd2 = IF Name(q[1]) THEN q[1].data ELSE fd, Named(q, fd, i + 1, f)
  PROVE  Named(Tail(q), fd2, i, f)
<1>1. PICK q2 : q2 = Tail(q)
  OBVIOUS
<1>2. /\ \A k \in 1 .. i - 1 : q2[k] = q[k + 1] /\ k + 1 \in 2 .. i
      /\ \A k \in 2 .. i : q2[k - 1] = q[k] /\ k - 1 \in 1 .. i - 1 /\ k \in 1 .. i
      /\ 1 \in 1 .. i /\ i \in Nat /\ (i + 1) - 1 = i
  BY <1>1, Behind
<1>3. CASE fd = f /\ \A k \in 1 .. i : ~ Name(q[k])
  <2>1. \A k \in 1 .. i - 1 : ~ Name(q2[k])
    BY <1>2, <1>3
  <2> QED
    BY <1>1, <1>2, <1>3, <2>1 DEF Named
<1>4. ASSUME NEW j \in 1 .. i, Name(q[j]), q[j].data = f, \A k \in j + 1 .. i : ~ Name(q[k])
      PROVE  Named(q2, fd2, i, f)
  <2>1. CASE j = 1
    <3>1. \A k \in 1 .. i - 1 : ~ Name(q2[k])
      BY <1>2, <1>4, <2>1
    <3> QED
      BY <1>4, <2>1, <3>1 DEF Named
  <2>2. CASE j # 1
    <3>1. j \in 2 .. i
      BY <2>2
    <3>2. q2[j - 1] = q[j] /\ j - 1 \in 1 .. i - 1
      BY <1>2, <3>1
    <3>3. \A k \in (j - 1) + 1 .. i - 1 : k \in 1 .. i - 1 /\ k + 1 \in j + 1 .. i
      BY <3>1
    <3>4. \A k \in (j - 1) + 1 .. i - 1 : ~ Name(q2[k])
      BY <1>2, <1>4, <3>3
    <3> QED
      BY <1>4, <3>2, <3>4 DEF Named
  <2> QED
    BY <2>1, <2>2
<1> QED
  BY <1>1, <1>2, <1>3, <1>4 DEF Named

LEMMA ClosedTail ==
  ASSUME NEW q \in Seq(ToServer), q # <<>>, NEW i \in 1 .. Len(q), NEW open, NEW open2,
         open2 <=> (Name(q[1]) \/ (open /\ ~ End(q[1]))), Closed(q, open, i + 1)
  PROVE  Closed(Tail(q), open2, i)
<1>1. PICK q2 : q2 = Tail(q)
  OBVIOUS
<1>2. /\ \A k \in 1 .. i - 1 : q2[k] = q[k + 1] /\ k + 1 \in 2 .. i
      /\ \A k \in 2 .. i : q2[k - 1] = q[k] /\ k - 1 \in 1 .. i - 1 /\ k \in 1 .. i
      /\ 1 \in 1 .. i /\ i \in Nat /\ (i + 1) - 1 = i
  BY <1>1, Behind
<1>3. CASE ~ open /\ \A k \in 1 .. i : ~ Name(q[k])
  <2>1. \A k \in 1 .. i - 1 : ~ Name(q2[k])
    BY <1>2, <1>3
  <2> QED
    BY <1>1, <1>2, <1>3, <2>1 DEF Closed
<1>4. ASSUME NEW j \in 1 .. i, End(q[j]), \A k \in j + 1 .. i : ~ Name(q[k])
      PROVE  Closed(q2, open2, i)
  <2>1. CASE j = 1
    <3>1. \A k \in 1 .. i - 1 : ~ Name(q2[k])
      BY <1>2, <1>4, <2>1
    <3>2. ~ open2
      BY <1>4, <2>1 DEF Name, End
    <3> QED
      BY <3>1, <3>2 DEF Closed
  <2>2. CASE j # 1
    <3>1. j \in 2 .. i
      BY <2>2
    <3>2. q2[j - 1] = q[j] /\ j - 1 \in 1 .. i - 1
      BY <1>2, <3>1
    <3>3. \A k \in (j - 1) + 1 .. i - 1 : k \in 1 .. i - 1 /\ k + 1 \in j + 1 .. i
      BY <3>1
    <3>4. \A k \in (j - 1) + 1 .. i - 1 : ~ Name(q2[k])
      BY <1>2, <1>4, <3>3
    <3> QED
      BY <1>4, <3>2, <3>4 DEF Closed
  <2> QED
    BY <2>1, <2>2
<1> QED
  BY <1>1, <1>2, <1>3, <1>4 DEF Closed

LEMMA ExpectsTail ==
  ASSUME NEW q \in Seq(ToServer), q # <<>>, NEW i \in 1 .. Len(q), NEW n, NEW open, NEW open2,
         NEW recv, NEW recv2, Name(q[1]) => open2 /\ recv2 = 1,
         Name(q[1]) \/ End(q[1]) \/ Chunk(q[1]) \/ ((open2 <=> open) /\ recv2 = recv),
         Expects(q, open, recv, i + 1, n)
  PROVE  Expects(Tail(q), open2, recv2, i, n)
<1>1. PICK q2 : q2 = Tail(q)
  OBVIOUS
<1>2. /\ \A k \in 1 .. i - 1 : q2[k] = q[k + 1] /\ k + 1 \in 2 .. i
      /\ \A k \in 2 .. i : q2[k - 1] = q[k] /\ k - 1 \in 1 .. i - 1 /\ k \in 1 .. i
      /\ 1 \in 1 .. i /\ i \in Nat /\ (i + 1) - 1 = i
  BY <1>1, Behind
<1>3. CASE open /\ recv = n /\ \A k \in 1 .. i : ~ (Name(q[k]) \/ End(q[k]) \/ Chunk(q[k]))
  <2>1. \A k \in 1 .. i - 1 : ~ (Name(q2[k]) \/ End(q2[k]) \/ Chunk(q2[k]))
    BY <1>2, <1>3
  <2>2. open2 /\ recv2 = n
    BY <1>2, <1>3
  <2> QED
    BY <1>1, <2>1, <2>2 DEF Expects
<1>4. ASSUME n = 1, NEW j \in 1 .. i, Name(q[j]),
             \A k \in j + 1 .. i : ~ (End(q[k]) \/ Chunk(q[k]))
      PROVE  Expects(q2, open2, recv2, i, n)
  <2>1. CASE j = 1
    <3>1. \A k \in 1 .. i - 1 : ~ (End(q2[k]) \/ Chunk(q2[k]))
      BY <1>2, <1>4, <2>1
    <3>2. open2 /\ recv2 = n
      BY <1>4, <2>1
    <3>3. ASSUME NEW k \in 1 .. i - 1, Name(q2[k])
          PROVE  Expects(q2, open2, recv2, i, n)
      <4>1. \A l \in k + 1 .. i - 1 : l \in 1 .. i - 1
        OBVIOUS
      <4> QED
        BY <1>4, <3>1, <3>3, <4>1 DEF Expects
    <3> QED
      BY <3>1, <3>2, <3>3 DEF Expects
  <2>2. CASE j # 1
    <3>1. j \in 2 .. i
      BY <2>2
    <3>2. q2[j - 1] = q[j] /\ j - 1 \in 1 .. i - 1
      BY <1>2, <3>1
    <3>3. \A k \in (j - 1) + 1 .. i - 1 : k \in 1 .. i - 1 /\ k + 1 \in j + 1 .. i
      BY <3>1
    <3>4. \A k \in (j - 1) + 1 .. i - 1 : ~ (End(q2[k]) \/ Chunk(q2[k]))
      BY <1>2, <1>4, <3>3
    <3> QED
      BY <1>4, <3>2, <3>4 DEF Expects
  <2> QED
    BY <2>1, <2>2
<1> QED
  BY <1>1, <1>2, <1>3, <1>4 DEF Expects

\* The server misses a name while it has no file open.
LEMMA NameDropped ==
  ASSUME NEW q \in Seq(ToServer), q # <<>>, NEW i \in 1 .. Len(q), NEW fd, NEW open, NEW f,
         ~ open, Name(q[1]), Named(q, fd, i + 1, f)
  PROVE  Finds(Tail(q), fd, open, TRUE, i, f)
<1>1. PICK q2 : q2 = Tail(q)
  OBVIOUS
<1>2. /\ \A k \in 1 .. i - 1 : q2[k] = q[k + 1] /\ k + 1 \in 2 .. i
      /\ \A k \in 2 .. i : q2[k - 1] = q[k] /\ k - 1 \in 1 .. i - 1 /\ k \in 1 .. i
      /\ 1 \in 1 .. i /\ i \in Nat /\ (i + 1) - 1 = i
  BY <1>1, Behind
<1>3. PICK j \in 1 .. i : /\ Name(q[j]) /\ q[j].data = f
                          /\ \A k \in j + 1 .. i : ~ Name(q[k])
  BY <1>2 DEF Named
<1>4. CASE j = 1
  <2>1. \A k \in 1 .. i - 1 : ~ Name(q2[k])
    BY <1>2, <1>3, <1>4
  <2> QED
    BY <1>1, <2>1 DEF Closed, Finds
<1>5. CASE j # 1
  <2>1. j \in 2 .. i
    BY <1>5
  <2>2. q2[j - 1] = q[j] /\ j - 1 \in 1 .. i - 1
    BY <1>2, <2>1
  <2>3. \A k \in (j - 1) + 1 .. i - 1 : k \in 1 .. i - 1 /\ k + 1 \in j + 1 .. i
    BY <2>1
  <2>4. \A k \in (j - 1) + 1 .. i - 1 : ~ Name(q2[k])
    BY <1>2, <1>3, <2>3
  <2> QED
    BY <1>1, <1>3, <2>2, <2>4 DEF Named, Finds
<1> QED
  BY <1>4, <1>5

-----------------------------------------------------------------------------
(* Found, Shut and Steady, as frames come and go.                          *)

LEMMA FoundAppend ==
  ASSUME NEW q \in Seq(ToServer), NEW m \in ToServer, NEW fd, NEW open, NEW nm,
         NEW snd, NEW snd2, NEW f, NEW f2, Found(q, fd, open, nm, snd, f),
         Chunk(m) => snd /\ FileOf(m) = f,
         snd2 => \/ Name(m) /\ m.data = f2
                 \/ ~ Name(m) /\ snd /\ f2 = f
  PROVE  Found(Append(q, m), fd, open, nm, snd2, f2)
<1>1. PICK q2 : q2 = Append(q, m)
  OBVIOUS
<1>2. /\ DOMAIN q2 = 1 .. Len(q) + 1 /\ DOMAIN q = 1 .. Len(q)
      /\ Len(q2) + 1 = Len(q) + 2 /\ Len(q) \in Nat
      /\ q2[Len(q) + 1] = m /\ \A i \in 1 .. Len(q) : q2[i] = q[i]
  BY <1>1, Appended
<1>3. ASSUME NEW i \in 1 .. Len(q) + 1, NEW g, Finds(q, fd, open, nm, i, g)
      PROVE  Finds(q2, fd, open, nm, i, g)
  BY <1>1, <1>3, NamedOn, ClosedOn DEF Finds
<1>4. ASSUME NEW i \in DOMAIN q2, Chunk(q2[i])
      PROVE  Finds(q2, fd, open, nm, i, FileOf(q2[i]))
  <2>1. CASE i \in 1 .. Len(q)
    <3>1. Finds(q, fd, open, nm, i, FileOf(q[i])) /\ i \in 1 .. Len(q) + 1
      BY <1>2, <1>4, <2>1 DEF Found
    <3> QED
      BY <1>2, <1>3, <2>1, <3>1
  <2>2. CASE i = Len(q) + 1
    <3>1. Finds(q, fd, open, nm, i, f) /\ FileOf(q2[i]) = f /\ i \in 1 .. Len(q) + 1
      BY <1>2, <1>4, <2>2 DEF Found
    <3> QED
      BY <1>3, <3>1
  <2> QED
    BY <1>2, <2>1, <2>2
<1>5. ASSUME snd2
      PROVE  Finds(q2, fd, open, nm, Len(q2) + 1, f2)
  <2>1. CASE Name(m) /\ m.data = f2
    <3>1. Named(Append(q, m), fd, Len(q) + 2, f2)
      BY <2>1, NamedNew
    <3> QED
      BY <1>1, <1>2, <3>1 DEF Finds
  <2>2. CASE ~ Name(m) /\ snd /\ f2 = f
    <3>1. Finds(q, fd, open, nm, Len(q) + 1, f2)
      BY <2>2 DEF Found
    <3>2. CASE Named(q, fd, Len(q) + 1, f2)
      <4>1. Named(Append(q, m), fd, Len(q) + 2, f2)
        BY <2>2, <3>2, NamedNew
      <4> QED
        BY <1>1, <1>2, <4>1 DEF Finds
    <3>3. CASE nm /\ Closed(q, open, Len(q) + 1)
      <4>1. Closed(Append(q, m), open, Len(q) + 2)
        BY <2>2, <3>3, ClosedNew
      <4> QED
        BY <1>1, <1>2, <3>3, <4>1 DEF Finds
    <3> QED
      BY <3>1, <3>2, <3>3 DEF Finds
  <2> QED
    BY <1>5, <2>1, <2>2
<1> QED
  BY <1>1, <1>4, <1>5 DEF Found

\* In Tail(q), all is one place earlier.
LEMMA FoundTail ==
  ASSUME NEW q \in Seq(ToServer), q # <<>>, NEW fd, NEW open, NEW nm,
         NEW fd2, NEW open2, NEW nm2, NEW snd, NEW f, Found(q, fd, open, nm, snd, f),
         \A i \in 1 .. Len(q) : \A g : Finds(q, fd, open, nm, i + 1, g)
                                         => Finds(Tail(q), fd2, open2, nm2, i, g)
  PROVE  Found(Tail(q), fd2, open2, nm2, snd, f)
<1>1. PICK q2 : q2 = Tail(q)
  OBVIOUS
<1>2. /\ DOMAIN q2 = 1 .. Len(q) - 1 /\ DOMAIN q = 1 .. Len(q)
      /\ Len(q2) + 1 = Len(q) /\ Len(q) \in 1 .. Len(q)
      /\ \A i \in DOMAIN q2 : i \in 1 .. Len(q) /\ i + 1 \in DOMAIN q /\ q2[i] = q[i + 1]
  BY <1>1, Shifted
<1>3. ASSUME NEW i \in DOMAIN q2, Chunk(q2[i])
      PROVE  Finds(q2, fd2, open2, nm2, i, FileOf(q2[i]))
  <2>1. Finds(q, fd, open, nm, i + 1, FileOf(q[i + 1]))
    BY <1>2, <1>3 DEF Found
  <2> QED
    BY <1>1, <1>2, <2>1
<1>4. ASSUME snd
      PROVE  Finds(q2, fd2, open2, nm2, Len(q2) + 1, f)
  <2>1. Finds(q, fd, open, nm, Len(q) + 1, f)
    BY <1>4 DEF Found
  <2>2. Finds(Tail(q), fd2, open2, nm2, Len(q), f)
    BY <1>2, <2>1
  <2> QED
    BY <1>1, <1>2, <2>2
<1> QED
  BY <1>1, <1>3, <1>4 DEF Found

LEMMA FoundDone ==
  ASSUME NEW q \in Seq(ToServer), q # <<>>, NEW fd, NEW open, NEW nm, NEW snd, NEW f,
         NEW fd2, fd2 = IF Name(q[1]) THEN q[1].data ELSE fd,
         NEW open2, open2 <=> (Name(q[1]) \/ (open /\ ~ End(q[1]))),
         Found(q, fd, open, nm, snd, f)
  PROVE  Found(Tail(q), fd2, open2, nm, snd, f)
<1>1. ASSUME NEW i \in 1 .. Len(q), NEW g, Finds(q, fd, open, nm, i + 1, g)
      PROVE  Finds(Tail(q), fd2, open2, nm, i, g)
  BY <1>1, NamedTail, ClosedTail DEF Finds
<1> QED
  BY <1>1, FoundTail

LEMMA FoundDropped ==
  ASSUME NEW q \in Seq(ToServer), q # <<>>, NEW fd, NEW open, NEW nm2, NEW snd, NEW f,
         Found(q, fd, open, FALSE, snd, f), Name(q[1]) => nm2 /\ ~ open
  PROVE  Found(Tail(q), fd, open, nm2, snd, f)
<1>1. ASSUME NEW i \in 1 .. Len(q), NEW g, Finds(q, fd, open, FALSE, i + 1, g)
      PROVE  Finds(Tail(q), fd, open, nm2, i, g)
  <2>1. Named(q, fd, i + 1, g)
    BY <1>1 DEF Finds
  <2>2. CASE Name(q[1])
    BY <2>1, <2>2, NameDropped DEF Finds
  <2>3. CASE ~ Name(q[1])
    <3>1. Named(Tail(q), fd, i, g)
      BY <2>1, <2>3, NamedTail
    <3> QED
      BY <3>1 DEF Finds
  <2> QED
    BY <2>2, <2>3
<1> QED
  BY <1>1, FoundTail

LEMMA ShutAppend ==
  ASSUME NEW q \in Seq(ToServer), NEW m \in ToServer, NEW open, NEW snd, NEW snd2,
         Shut(q, open, snd), Name(m) => ~ snd,
         ~ snd2 => End(m) \/ (~ Name(m) /\ ~ snd)
  PROVE  Shut(Append(q, m), open, snd2)
<1>1. PICK q2 : q2 = Append(q, m)
  OBVIOUS
<1>2. /\ DOMAIN q2 = 1 .. Len(q) + 1 /\ DOMAIN q = 1 .. Len(q)
      /\ Len(q2) + 1 = Len(q) + 2 /\ Len(q) \in Nat
      /\ q2[Len(q) + 1] = m /\ \A i \in 1 .. Len(q) : q2[i] = q[i]
  BY <1>1, Appended
<1>3. ASSUME NEW i \in DOMAIN q2, Name(q2[i])
      PROVE  Closed(q2, open, i)
  <2>1. Closed(q, open, i) /\ i \in 1 .. Len(q) + 1
    <3>1. CASE i \in 1 .. Len(q)
      BY <1>2, <1>3, <3>1 DEF Shut
    <3>2. CASE i = Len(q) + 1
      BY <1>2, <1>3, <3>2 DEF Shut
    <3> QED
      BY <1>2, <3>1, <3>2
  <2> QED
    BY <1>1, <2>1, ClosedOn
<1>4. ASSUME ~ snd2
      PROVE  Closed(q2, open, Len(q2) + 1)
  <2>1. Closed(Append(q, m), open, Len(q) + 2)
    BY <1>4, ClosedNew DEF Shut
  <2> QED
    BY <1>1, <1>2, <2>1
<1> QED
  BY <1>1, <1>3, <1>4 DEF Shut

LEMMA ShutDone ==
  ASSUME NEW q \in Seq(ToServer), q # <<>>, NEW open, NEW open2, NEW snd,
         open2 <=> (Name(q[1]) \/ (open /\ ~ End(q[1]))), Shut(q, open, snd)
  PROVE  Shut(Tail(q), open2, snd)
<1>1. PICK q2 : q2 = Tail(q)
  OBVIOUS
<1>2. /\ DOMAIN q2 = 1 .. Len(q) - 1 /\ DOMAIN q = 1 .. Len(q)
      /\ Len(q2) + 1 = Len(q) /\ Len(q) \in 1 .. Len(q)
      /\ \A i \in DOMAIN q2 : i \in 1 .. Len(q) /\ i + 1 \in DOMAIN q /\ q2[i] = q[i + 1]
  BY <1>1, Shifted
<1>3. ASSUME NEW i \in 1 .. Len(q), Closed(q, open, i + 1)
      PROVE  Closed(q2, open2, i)
  BY <1>1, <1>3, ClosedTail
<1> QED
  BY <1>1, <1>2, <1>3 DEF Shut

\* What the client appends, as it goes on with its file.
LEMMA SteadyName ==
  ASSUME NEW q \in Seq(ToServer), NEW m \in ToServer, NEW p, NEW open, NEW recv, NEW n,
         Steady(q, p, open, recv, "file", n), Name(m)
  PROVE  Steady(Append(q, m), p, open, recv, "chunk", 1)
<1>1. PICK q2 : q2 = Append(q, m)
  OBVIOUS
<1>2. /\ DOMAIN q2 = 1 .. Len(q) + 1 /\ DOMAIN q = 1 .. Len(q)
      /\ Len(q2) + 1 = Len(q) + 2 /\ Len(q) \in Nat
      /\ q2[Len(q) + 1] = m /\ \A i \in 1 .. Len(q) : q2[i] = q[i]
  BY <1>1, Appended
<1>3. NoStart(q) /\ NoChunk(q) /\ NoReply(p)
  BY DEF Steady
<1>4. NoStart(q2) /\ NoChunk(q2)
  BY <1>2, <1>3 DEF NoStart, NoChunk, Name, Chunk
<1>5. Expects(q2, open, recv, Len(q2) + 1, 1)
  <2>1. Expects(Append(q, m), open, recv, Len(q) + 2, 1)
    BY ExpectsNew
  <2> QED
    BY <1>1, <1>2, <2>1
<1> QED
  BY <1>1, <1>3, <1>4, <1>5 DEF Steady

LEMMA SteadyChunk ==
  ASSUME NEW q \in Seq(ToServer), NEW m \in ToServer, NEW p, NEW open, NEW recv, NEW n,
         Steady(q, p, open, recv, "chunk", n), Chunk(m), m.seq = n
  PROVE  Steady(Append(q, m), p, open, recv, "answer", n)
<1>1. PICK q2 : q2 = Append(q, m)
  OBVIOUS
<1>2. /\ DOMAIN q2 = 1 .. Len(q) + 1 /\ DOMAIN q = 1 .. Len(q)
      /\ Len(q2) = Len(q) + 1 /\ Len(q2) - 1 = Len(q) /\ Len(q) \in Nat
      /\ q2[Len(q) + 1] = m /\ \A i \in 1 .. Len(q) : q2[i] = q[i]
  BY <1>1, Appended
<1>3. NoStart(q) /\ NoChunk(q) /\ NoReply(p) /\ Expects(q, open, recv, Len(q) + 1, n)
  BY DEF Steady
<1>4. NoStart(q2)
  BY <1>2, <1>3 DEF NoStart, Chunk
<1>5. Expects(q2, open, recv, Len(q2), n)
  <2>1. Len(q) + 1 \in 1 .. Len(q) + 1
    BY <1>2
  <2>2. Expects(Append(q, m), open, recv, Len(q) + 1, n)
    BY <1>3, <2>1, ExpectsOn
  <2> QED
    BY <1>1, <1>2, <2>2
<1>6. q2 # <<>> /\ q2[Len(q2)] = m /\ \A k \in 1 .. Len(q2) - 1 : ~ Chunk(q2[k])
  BY <1>2, <1>3 DEF NoChunk
<1>7. Asked(q2, p, open, recv, n)
  BY <1>3, <1>5, <1>6 DEF Asked
<1> QED
  BY <1>1, <1>4, <1>7 DEF Steady

LEMMA SteadyEnd ==
  ASSUME NEW q \in Seq(ToServer), NEW m \in ToServer, NEW p, NEW open, NEW recv, NEW n,
         NEW n2, Steady(q, p, open, recv, "chunk", n), End(m)
  PROVE  Steady(Append(q, m), p, open, recv, "file", n2)
<1>1. PICK q2 : q2 = Append(q, m)
  OBVIOUS
<1>2. /\ DOMAIN q2 = 1 .. Len(q) + 1 /\ DOMAIN q = 1 .. Len(q)
      /\ q2[Len(q) + 1] = m /\ \A i \in 1 .. Len(q) : q2[i] = q[i]
  BY <1>1, Appended
<1>3. NoStart(q) /\ NoChunk(q) /\ NoReply(p)
  BY DEF Steady
<1>4. NoStart(q2) /\ NoChunk(q2)
  BY <1>2, <1>3 DEF NoStart, NoChunk, End, Chunk
<1> QED
  BY <1>1, <1>3, <1>4 DEF Steady

\* The server takes what is no chunk.
LEMMA SteadyDone ==
  ASSUME NEW q \in Seq(ToServer), q # <<>>, NEW p, NEW open, NEW open2, NEW recv, NEW recv2,
         NEW pc, NEW n, Steady(q, p, open, recv, pc, n), ~ Chunk(q[1]),
         Name(q[1]) => open2 /\ recv2 = 1,
         Name(q[1]) \/ End(q[1]) \/ ((open2 <=> open) /\ recv2 = recv)
  PROVE  Steady(Tail(q), p, open2, recv2, pc, n)
<1>1. PICK q2 : q2 = Tail(q)
  OBVIOUS
<1>2. /\ DOMAIN q2 = 1 .. Len(q) - 1 /\ DOMAIN q = 1 .. Len(q)
      /\ Len(q2) + 1 = Len(q) /\ Len(q2) = Len(q) - 1 /\ Len(q) \in 1 .. Len(q)
      /\ \A i \in 1 .. Len(q) - 1 : i \in 1 .. Len(q) /\ i + 1 \in 1 .. Len(q) /\ q2[i] = q[i + 1]
  BY <1>1, Shifted
<1>3. NoStart(q) => NoStart(q2)
  BY <1>2 DEF NoStart
<1>4. NoChunk(q) => NoChunk(q2)
  BY <1>2 DEF NoChunk
<1>5. ASSUME NEW i \in 1 .. Len(q), NEW k, Expects(q, open, recv, i + 1, k)
      PROVE  Expects(q2, open2, recv2, i, k)
  BY <1>1, <1>5, ExpectsTail
<1>6. ASSUME NEW k, Expects(q, open, recv, Len(q) + 1, k)
      PROVE  Expects(q2, open2, recv2, Len(q2) + 1, k)
  BY <1>2, <1>5, <1>6
<1>7. ASSUME Asked(q, p, open, recv, n)
      PROVE  Asked(q2, p, open2, recv2, n)
  <2>1. Len(q) # 1
    BY <1>7 DEF Asked
  <2>2. /\ Len(q2) \in 1 .. Len(q) - 1 /\ Len(q2) + 1 = Len(q) /\ q2[Len(q2)] = q[Len(q)]
        /\ q2 # <<>>
    BY <1>2, <2>1
  <2>3. Expects(q2, open2, recv2, Len(q2), n)
    BY <1>2, <1>5, <1>7, <2>2 DEF Asked
  <2>4. \A k \in 1 .. Len(q2) - 1 : ~ Chunk(q2[k])
    <3>1. \A k \in 1 .. Len(q2) - 1 : k + 1 \in 1 .. Len(q) - 1 /\ k \in 1 .. Len(q) - 1
      BY <1>2
    <3> QED
      BY <1>2, <1>7, <3>1 DEF Asked
  <2> QED
    BY <1>7, <2>2, <2>3, <2>4 DEF Asked
<1>8. ASSUME Told(q, p, open, recv, n)
      PROVE  Told(q2, p, open2, recv2, n)
  BY <1>4, <1>6, <1>8 DEF Told
<1> QED
  BY <1>1, <1>3, <1>4, <1>6, <1>7, <1>8 DEF Steady

\* The server takes the chunk, and answers it.
LEMMA SteadyTaken ==
  ASSUME NEW q \in Seq(ToServer), q # <<>>, NEW p \in Seq(ToClient), NEW m \in ToClient,
         NEW open, NEW recv \in Nat, NEW pc, NEW n, Steady(q, p, open, recv, pc, n), Chunk(q[1]),
         m.type = "recv_ok_msg", m.seq = recv
  PROVE  /\ open /\ q[1].seq = recv
         /\ Steady(Tail(q), Append(p, m), open, recv + 1, pc, n)
<1>1. PICK q2 : q2 = Tail(q)
  OBVIOUS
<1>2. PICK p2 : p2 = Append(p, m)
  OBVIOUS
<1>3. /\ DOMAIN q = 1 .. Len(q) /\ 1 \in DOMAIN q /\ Len(q) \in Nat
      /\ DOMAIN p2 = 1 .. Len(p) + 1 /\ DOMAIN p = 1 .. Len(p) /\ Len(p) \in Nat
      /\ p2[Len(p) + 1] = m /\ \A i \in 1 .. Len(p) : p2[i] = p[i]
  BY <1>2, Appended, Shifted
<1>4. pc = "answer" /\ Asked(q, p, open, recv, n)
  BY <1>3 DEF Steady, Told, NoChunk
<1>5. Len(q) = 1
  <2>1. ~ (1 \in 1 .. Len(q) - 1)
    BY <1>4 DEF Asked
  <2> QED
    BY <1>3, <2>1
<1>6. Expects(q, open, recv, 1, n) /\ q[1].seq = n
  BY <1>4, <1>5 DEF Asked
<1>7. open /\ recv = n
  BY <1>6 DEF Expects
<1>8. Len(q2) = 0 /\ DOMAIN q2 = 1 .. 0
  BY <1>1, <1>5, Shifted
<1>9. NoStart(q2) /\ NoChunk(q2)
  BY <1>8 DEF NoStart, NoChunk
<1>10. Expects(q2, open, recv + 1, Len(q2) + 1, n + 1)
  <2>1. \A k \in 1 .. (Len(q2) + 1) - 1 : FALSE
    BY <1>8
  <2> QED
    BY <1>7, <2>1 DEF Expects
<1>11. /\ Len(p) + 1 \in DOMAIN p2 /\ IsFor(p2[Len(p) + 1], n)
       /\ \A k \in DOMAIN p2 : p2[k].type \in Reply => k = Len(p) + 1
  <2>1. \A i \in 1 .. Len(p) : p2[i].type \notin Reply
    BY <1>3, <1>4 DEF Asked, NoReply
  <2> QED
    BY <1>3, <1>7, <2>1 DEF IsFor
<1>12. Told(q2, p2, open, recv + 1, n)
  BY <1>9, <1>10, <1>11 DEF Told
<1>13. Steady(q2, p2, open, recv + 1, pc, n)
  BY <1>4, <1>9, <1>12 DEF Steady
<1> QED
  BY <1>1, <1>2, <1>6, <1>7, <1>13

\* The server sends output, and the client skips it.
LEMMA SteadySent ==
  ASSUME NEW q, NEW p \in Seq(ToClient), NEW m \in ToClient, m.type \notin Reply,
         NEW open, NEW recv, NEW pc, NEW n, Steady(q, p, open, recv, pc, n)
  PROVE  Steady(q, Append(p, m), open, recv, pc, n)
<1>1. PICK p2 : p2 = Append(p, m)
  OBVIOUS
<1>2. /\ DOMAIN p2 = 1 .. Len(p) + 1 /\ DOMAIN p = 1 .. Len(p) /\ Len(p) \in Nat
      /\ p2[Len(p) + 1] = m /\ \A i \in 1 .. Len(p) : p2[i] = p[i]
  BY <1>1, Appended
<1>3. NoReply(p) => NoReply(p2)
  BY <1>2 DEF NoReply
<1>4. ASSUME NEW i \in DOMAIN p, IsFor(p[i], n), \A k \in DOMAIN p : p[k].type \in Reply => k = i
      PROVE  /\ i \in DOMAIN p2 /\ IsFor(p2[i], n)
             /\ \A k \in DOMAIN p2 : p2[k].type \in Reply => k = i
  BY <1>2, <1>4
<1>5. Told(q, p, open, recv, n) => Told(q, p2, open, recv, n)
  BY <1>4 DEF Told
<1>6. Asked(q, p, open, recv, n) => Asked(q, p2, open, recv, n)
  BY <1>3 DEF Asked
<1> QED
  BY <1>1, <1>3, <1>5, <1>6 DEF Steady

LEMMA SteadySkipped ==
  ASSUME NEW q, NEW p \in Seq(ToClient), p # <<>>, p[1].type \notin Reply,
         NEW open, NEW recv, NEW pc, NEW n, Steady(q, p, open, recv, pc, n)
  PROVE  Steady(q, Tail(p), open, recv, pc, n)
<1>1. PICK p2 : p2 = Tail(p)
  OBVIOUS
<1>2. /\ DOMAIN p2 = 1 .. Len(p) - 1 /\ DOMAIN p = 1 .. Len(p) /\ Len(p) \in Nat \ {0}
      /\ \A i \in 1 .. Len(p) - 1 : p2[i] = p[i + 1] /\ i + 1 \in 1 .. Len(p)
  BY <1>1, Shifted
<1>3. NoReply(p) => NoReply(p2)
  BY <1>2 DEF NoReply
<1>4. ASSUME NEW i \in DOMAIN p, IsFor(p[i], n), \A k \in DOMAIN p : p[k].type \in Reply => k = i
      PROVE  \E j \in DOMAIN p2 : /\ IsFor(p2[j], n)
                                  /\ \A k \in DOMAIN p2 : p2[k].type \in Reply => k = j
  <2>1. i # 1
    BY <1>4 DEF IsFor, Reply
  <2>2. i - 1 \in DOMAIN p2 /\ p2[i - 1] = p[i]
    BY <1>2, <2>1
  <2>3. \A k \in DOMAIN p2 : p2[k].type \in Reply => k = i - 1
    <3> SUFFICES ASSUME NEW k \in DOMAIN p2, p2[k].type \in Reply
                 PROVE  k = i - 1
      OBVIOUS
    <3>1. k + 1 \in DOMAIN p /\ p2[k] = p[k + 1]
      BY <1>2
    <3>2. k + 1 = i
      BY <1>4, <3>1
    <3>3. k \in Int
      BY <1>2
    <3> QED
      BY <3>2, <3>3
  <2> QED
    BY <1>4, <2>2, <2>3
<1>5. Told(q, p, open, recv, n) => Told(q, p2, open, recv, n)
  BY <1>4 DEF Told
<1>6. Asked(q, p, open, recv, n) => Asked(q, p2, open, recv, n)
  BY <1>3 DEF Asked
<1> QED
  BY <1>1, <1>3, <1>5, <1>6 DEF Steady

\* The client reads its answer.
LEMMA SteadyAnswered ==
  ASSUME NEW q, NEW p \in Seq(ToClient), p # <<>>, p[1].type \in Reply,
         NEW open, NEW recv, NEW n, Steady(q, p, open, recv, "answer", n)
  PROVE  IsFor(p[1], n) /\ Steady(q, Tail(p), open, recv, "chunk", n + 1)
<1>1. PICK p2 : p2 = Tail(p)
  OBVIOUS
<1>2. /\ DOMAIN p2 = 1 .. Len(p) - 1 /\ DOMAIN p = 1 .. Len(p) /\ Len(p) \in Nat \ {0}
      /\ 1 \in DOMAIN p
      /\ \A i \in 1 .. Len(p) - 1 : p2[i] = p[i + 1] /\ i + 1 \in 1 .. Len(p)
  BY <1>1, Shifted
<1>3. Told(q, p, open, recv, n)
  BY <1>2 DEF Steady, Asked, NoReply
<1>4. IsFor(p[1], n) /\ \A k \in DOMAIN p : p[k].type \in Reply => k = 1
  BY <1>2, <1>3 DEF Told
<1>5. NoReply(p2)
  <2>1. \A i \in DOMAIN p2 : i + 1 # 1 /\ i + 1 \in DOMAIN p /\ p2[i] = p[i + 1]
    BY <1>2
  <2> QED
    BY <1>4, <2>1 DEF NoReply
<1> QED
  BY <1>1, <1>3, <1>4, <1>5 DEF Steady, Told

-----------------------------------------------------------------------------
(* What the steps do to files.                                             *)

LEMMA MildBefore ==
  ASSUME Types, Types', Next
  PROVE  /\ Mild' => Mild
         /\ NeverFull' => NeverFull
         /\ trouble' = 0 => trouble = 0
         /\ trouble \in Nat /\ trouble' \in Nat
<1>1. /\ trouble \in Nat /\ trouble' \in Nat /\ trouble <= trouble' /\ missed \subseteq missed'
  BY DEF Next, ClientStep, ServerStep, Timeout, PutFile, SendChunk, StartShell, ReadAnswer,
     NoAnswer, ReadOutput, ProcessOther, ContinueReceivingFile, ForwardOutput,
     ReadAcknowledgement, NoAcknowledgement, NoAnswerYet, NoAcknowledgementYet, Type,
     DiskFull, ShellWrites, Lose, NextClient, Types, Counts
<1>2. NeverFull' => NeverFull
  <2>1. scenario' = scenario
    BY DEF Next, ClientStep, ServerStep, Timeout, PutFile, SendChunk, StartShell, ReadAnswer,
       NoAnswer, ReadOutput, ProcessOther, ContinueReceivingFile, ForwardOutput,
       ReadAcknowledgement, NoAcknowledgement, NoAnswerYet, NoAcknowledgementYet, Type,
       DiskFull, ShellWrites, Lose, NextClient
  <2>2. left' = left \/ \E k \in DOMAIN left : Spend(k)
    BY DEF Next, ClientStep, ServerStep, Timeout, PutFile, SendChunk, StartShell, ReadAnswer,
       NoAnswer, ReadOutput, ProcessOther, ContinueReceivingFile, ForwardOutput,
       ReadAcknowledgement, NoAcknowledgement, NoAnswerYet, NoAcknowledgementYet, Type,
       DiskFull, ShellWrites, Lose, NextClient, Types, Counts
  <2>3. /\ "full" \in DOMAIN left /\ left["full"] \in Nat /\ left'["full"] \in Nat
        /\ left["full"] <= scenario["full"] /\ scenario["full"] = scenario.full
        /\ scenario["full"] \in Nat
    BY Scene DEF Types, Counts
  <2>4. left'["full"] <= left["full"]
    BY <2>2, <2>3, Spending DEF Types
  <2> QED
    BY <2>1, <2>3, <2>4 DEF NeverFull
<1> QED
  BY <1>1, <1>2 DEF Mild, NameMissed

LEMMA PutFileEffect ==
  ASSUME Types, PutFile
  PROVE  /\ Working.mode = "put" /\ client.pc = "file" /\ ~ Sending
         /\ \/ client'.pc = "done" /\ UNCHANGED toServer
            \/ /\ client'.pc = "chunk" /\ client'.seq = 1 /\ client'.file = client.file
               /\ \E m \in ToServer : /\ Name(m) /\ m.data = <<session, client.file>>
                                      /\ toServer' = Append(toServer, m)
<1>1. client \in ClientState /\ session \in Nat
  BY Scene DEF Types, ClientTypes, Counts
<1>2. Working.mode = "put" /\ client.pc = "file"
  BY DEF PutFile, Types, ClientTypes, Steps
<1>3. CASE client.file > Len(Working.files)
  <2>1. client' = [client EXCEPT !.pc = "done"] /\ UNCHANGED toServer
    BY <1>3 DEF PutFile
  <2> QED
    BY <1>1, <1>2, <2>1 DEF ClientState, Sending
<1>4. CASE ~ (client.file > Len(Working.files))
  <2>1. /\ client' = [client EXCEPT !.pc = "chunk", !.seq = 1, !.tries = 0, !.errors = 0]
        /\ toServer' = Append(toServer, Msg("put_name_msg", 0, <<session, client.file>>))
    BY <1>4 DEF PutFile
  <2>2. client'.pc = "chunk" /\ client'.seq = 1 /\ client'.file = client.file
    BY <1>1, <2>1 DEF ClientState
  <2>3. PICK m : m = Msg("put_name_msg", 0, <<session, client.file>>)
    OBVIOUS
  <2>4. m \in ToServer /\ Name(m) /\ m.data = <<session, client.file>>
    BY <1>1, <2>3 DEF Msg, ToServer, MsgType, Data, ClientState, Name
  <2> QED
    BY <1>2, <2>1, <2>2, <2>3, <2>4 DEF Sending
<1> QED
  BY <1>3, <1>4

LEMMA SendChunkEffect ==
  ASSUME Types, SendChunk
  PROVE  /\ Working.mode = "put" /\ client.pc = "chunk" /\ Sending
         /\ \/ /\ client'.pc = "file"
               /\ \E m \in ToServer : End(m) /\ toServer' = Append(toServer, m)
            \/ /\ client'.pc = "answer" /\ client'.seq = client.seq
               /\ client'.file = client.file
               /\ \E m \in ToServer : /\ Chunk(m) /\ m.seq = client.seq
                                      /\ FileOf(m) = <<session, client.file>>
                                      /\ toServer' = Append(toServer, m)
<1>1. client \in ClientState /\ session \in Nat
  BY Scene DEF Types, ClientTypes, Counts
<1>2. Working.mode = "put" /\ client.pc = "chunk" /\ Sending
  BY DEF SendChunk, Types, ClientTypes, Steps, Sending
<1>3. PICK f \in Nat \ {0} : f = client.file + 1
  BY <1>1 DEF ClientState
<1>4. CASE client.seq > Working.files[client.file]
  <2>1. /\ client' = [client EXCEPT !.pc = "file", !.file = f]
        /\ toServer' = Append(toServer, Msg("transfer_end_msg", 0, Junk))
    BY <1>3, <1>4 DEF SendChunk
  <2>2. client'.pc = "file"
    BY <1>1, <2>1 DEF ClientState
  <2>3. PICK m : m = Msg("transfer_end_msg", 0, Junk)
    OBVIOUS
  <2>4. m \in ToServer /\ End(m)
    BY <2>3 DEF Msg, ToServer, MsgType, Data, Junk, End
  <2> QED
    BY <1>2, <2>1, <2>2, <2>3, <2>4
<1>5. CASE ~ (client.seq > Working.files[client.file])
  <2>1. PICK m : m = Msg("transfer_cont_msg", client.seq, <<session, client.file, client.seq>>)
    OBVIOUS
  <2>2. client' = [client EXCEPT !.pc = "answer"] /\ toServer' = Append(toServer, m)
    BY <1>5, <2>1 DEF SendChunk
  <2>3. client'.pc = "answer" /\ client'.seq = client.seq /\ client'.file = client.file
    BY <1>1, <2>2 DEF ClientState
  <2>4. /\ m.type = "transfer_cont_msg" /\ m.seq = client.seq
        /\ m.data = <<session, client.file, client.seq>>
    BY <2>1 DEF Msg
  <2>5. m \in ToServer
    BY <1>1, <2>1 DEF Msg, ToServer, MsgType, Data, ClientState
  <2>6. Chunk(m) /\ FileOf(m) = <<session, client.file>>
    BY <1>1, <2>4 DEF Chunk, FileOf, ClientState
  <2> QED
    BY <1>2, <2>2, <2>3, <2>4, <2>5, <2>6
<1> QED
  BY <1>4, <1>5

\* What is no part of a file.
Other(m) == ~ (Name(m) \/ End(m) \/ Chunk(m))

LEMMA ShellEffect ==
  ASSUME Types, StartShell \/ ReadOutput \/ Type
  PROVE  /\ Working.mode # "put"
         /\ \/ UNCHANGED toServer
            \/ \E m \in ToServer : Other(m) /\ toServer' = Append(toServer, m)
<1>1. Working.mode # "put"
  BY DEF StartShell, ReadOutput, Type, Types, ClientTypes, Steps
<1>2. ASSUME NEW t \in {"start_shell_msg", "shell_cmd_msg", "recv_ok_msg"},
             NEW n \in Int, NEW d \in Nat
      PROVE  Msg(t, n, d) \in ToServer /\ Other(Msg(t, n, d))
  BY DEF Msg, ToServer, MsgType, Reply, Data, Other, Name, End, Chunk
<1>3. CASE StartShell \/ Type
  <2>1. PICK t \in {"start_shell_msg", "shell_cmd_msg"}, n \in Int :
          toServer' = Append(toServer, Msg(t, n, Junk))
    BY <1>3 DEF StartShell, Type
  <2>2. Junk \in Nat
    BY DEF Junk
  <2>3. Msg(t, n, Junk) \in ToServer /\ Other(Msg(t, n, Junk))
    BY <1>2, <2>2
  <2> QED
    BY <1>1, <2>1, <2>3
<1>4. CASE ReadOutput
  <2>1. PICK m : m = Head(toClient)
    OBVIOUS
  <2>2. m \in ToClient
    BY <1>4, <2>1, Shifted DEF ReadOutput, Types, FrameTypes
  <2>3. PICK n : n = FirstWord(m)
    OBVIOUS
  <2>4. n \in Int /\ m.data \in Nat
    BY <2>2, <2>3 DEF FirstWord, ToClient
  <2>5. \/ UNCHANGED toServer
        \/ toServer' = Append(toServer, Msg("recv_ok_msg", n, m.data))
    BY <1>4, <2>1, <2>3 DEF ReadOutput
  <2> QED
    BY <1>1, <1>2, <2>4, <2>5
<1> QED
  BY <1>3, <1>4

\* The next client begins at no file of its own.
LEMMA NotSending ==
  ASSUME Types, NextClient
  PROVE  ~ Sending /\ ~ Sending' /\ client'.pc # "answer" /\ client'.pc # "chunk"
<1>1. ~ Sending
  BY DEF NextClient, Sending
<1>2. session + 1 \in DOMAIN scenario.sessions
  BY Scene DEF NextClient, Types, Counts
<1>3. scenario.sessions[session + 1].mode \in Mode
  <2>1. scenario.sessions \in Seq(Session)
    BY Scene DEF Types
  <2>2. scenario.sessions[session + 1] \in Session
    BY <1>2, <2>1
  <2> QED
    BY <2>2 DEF Session
<1>4. client'.pc \notin {"chunk", "answer"}
  BY <1>3, FirstClient DEF NextClient, Types
<1> QED
  BY <1>1, <1>4 DEF Sending

\* What the server takes, and what becomes of it.
LEMMA TakenEffect ==
  ASSUME Types, ProcessOther \/ ContinueReceivingFile \/ DiskFull
  PROVE  /\ toServer # <<>> /\ toServer' = Tail(toServer)
         /\ server'.fd = IF Name(toServer[1]) THEN toServer[1].data ELSE server.fd
         /\ server'.receiving <=> Name(toServer[1]) \/ (server.receiving /\ ~ End(toServer[1]))
         /\ UNCHANGED <<scenario, session, client, missed>>
<1>1. toServer # <<>> /\ toServer' = Tail(toServer) /\ Head(toServer) = toServer[1]
      /\ UNCHANGED <<scenario, session, client, missed>>
  BY Shifted DEF ProcessOther, ContinueReceivingFile, DiskFull, Types, FrameTypes
<1>2. CASE ProcessOther
  BY <1>1, <1>2, OtherServer DEF Name, End
<1>3. CASE ContinueReceivingFile
  BY <1>1, <1>3, ChunkServer DEF ContinueReceivingFile, Name, End
<1>4. CASE DiskFull
  BY <1>1, <1>4, FullServer DEF DiskFull, Name, End
<1> QED
  BY <1>1, <1>2, <1>3, <1>4

\* What the server does not get, or takes for no answer.
Drops == /\ toServer # <<>> /\ toServer' = Tail(toServer) /\ SameFile
         /\ missed' = missed \cup {toServer[1].type} /\ trouble' = trouble + 1
         /\ UNCHANGED <<scenario, session, client, disk>>
\* An answer to the server's shell is neither, nor part of a file.
Skips == /\ toServer # <<>> /\ toServer' = Tail(toServer) /\ SameFile
         /\ Other(toServer[1])
         /\ UNCHANGED <<scenario, session, client, missed, trouble, disk>>
\* No other step changes what comes to the server.
Keeps == /\ UNCHANGED <<scenario, session, client, toServer, missed, disk>> /\ SameFile

LEMMA OtherEffect ==
  ASSUME Types, \/ ForwardOutput \/ ReadAcknowledgement \/ NoAcknowledgement
                \/ NoAcknowledgementYet \/ ShellWrites \/ Lose
  PROVE  Drops \/ Skips \/ Keeps
<1>1. CASE ForwardOutput \/ NoAcknowledgement \/ NoAcknowledgementYet
  BY <1>1, OutputSteps DEF ForwardOutput, NoAcknowledgement, NoAcknowledgementYet, Keeps
<1>2. CASE ReadAcknowledgement
  <2>1. toServer # <<>> /\ toServer' = Tail(toServer) /\ Head(toServer) = toServer[1]
        /\ UNCHANGED <<scenario, session, client, disk>> /\ SameFile
    BY <1>2, OutputSteps, Shifted DEF ReadAcknowledgement, Types, FrameTypes
  <2>2. CASE Head(toServer).type \notin Reply
    BY <1>2, <2>1, <2>2 DEF ReadAcknowledgement, Drops
  <2>3. CASE Head(toServer).type \in Reply
    <3>1. UNCHANGED <<missed, trouble>>
      BY <1>2, <2>3 DEF ReadAcknowledgement
    <3>2. Other(toServer[1])
      BY <2>1, <2>3 DEF Other, Name, End, Chunk, Reply
    <3> QED
      BY <2>1, <3>1, <3>2 DEF Skips
  <2> QED
    BY <2>2, <2>3
<1>3. CASE ShellWrites
  BY <1>3, WritingServer DEF ShellWrites, Keeps
<1>4. CASE Lose
  BY <1>4, Shifted DEF Lose, Drops, Keeps, SameFile, Types, FrameTypes
<1> QED
  BY <1>1, <1>2, <1>3, <1>4

\* What comes of an answer, or of none.
LEMMA AnswerEffect ==
  ASSUME Types, ReadAnswer \/ NoAnswer \/ NoAnswerYet
  PROVE  /\ UNCHANGED <<scenario, session, server, toServer, disk, missed>>
         /\ client.pc = "answer"
         /\ Sending' => Sending /\ client'.file = client.file
<1>1. /\ UNCHANGED <<scenario, session, server, toServer, disk, missed>>
      /\ client.pc = "answer"
      /\ client' = client \/ client' \in {Failed(client), Answered(client)}
  BY DEF ReadAnswer, NoAnswer, NoAnswerYet
<1>2. Sending' => client'.pc # "file" /\ Working.mode = "put"
  BY <1>1 DEF Sending, Working
<1>3. client'.file = client.file \/ client'.pc = "file"
  BY <1>1, ClientGoesOn DEF Types
<1> QED
  BY <1>1, <1>2, <1>3 DEF Sending

LEMMA FoundKept ==
  ASSUME NEW q, NEW fd, NEW open, NEW nm, NEW snd, NEW snd2, NEW f, NEW f2,
         Found(q, fd, open, nm, snd, f), snd2 => snd /\ f2 = f
  PROVE  Found(q, fd, open, nm, snd2, f2)
BY DEF Found

LEMMA FoundNext ==
  ASSUME Types, Types', Next, FoundInv, ShutInv
  PROVE  FoundInv'
<1> DEFINE f == <<session, client.file>>
<1> SUFFICES ASSUME Mild'
             PROVE  Found(toServer', server'.fd, server'.receiving, NameMissed', Sending', f')
  BY DEF FoundInv
<1>1. Found(toServer, server.fd, server.receiving, NameMissed, Sending, f)
  BY MildBefore DEF FoundInv
<1>2. toServer \in Seq(ToServer)
  BY DEF Types, FrameTypes
<1>3. CASE PutFile
  <2>1. /\ UNCHANGED <<scenario, session, server, missed>> /\ NameMissed' = NameMissed
        /\ ~ Sending
    BY <1>3, PutFileEffect DEF PutFile, NameMissed
  <2>2. CASE client'.pc = "done" /\ UNCHANGED toServer
    <3>1. ~ Sending'
      BY <2>2 DEF Sending
    <3> QED
      BY <1>1, <2>1, <2>2, <3>1, FoundKept
  <2>3. CASE /\ client'.file = client.file
             /\ \E m \in ToServer : /\ Name(m) /\ m.data = <<session, client.file>>
                                    /\ toServer' = Append(toServer, m)
    <3>1. PICK m \in ToServer : /\ Name(m) /\ m.data = f /\ toServer' = Append(toServer, m)
      BY <2>3
    <3>2. f' = f /\ ~ Chunk(m)
      BY <2>1, <2>3, <3>1 DEF Name, Chunk
    <3> HIDE DEF f
    <3>3. Found(Append(toServer, m), server.fd, server.receiving, NameMissed, Sending', f')
      BY <1>1, <1>2, <3>1, <3>2, FoundAppend
    <3> QED
      BY <2>1, <3>1, <3>3
  <2> QED
    BY <1>3, <2>2, <2>3, PutFileEffect
<1>4. CASE SendChunk
  <2>1. /\ UNCHANGED <<scenario, session, server, missed>> /\ NameMissed' = NameMissed
        /\ Sending
    BY <1>4, SendChunkEffect DEF SendChunk, NameMissed
  <2>2. PICK m \in ToServer : /\ ~ Name(m) /\ toServer' = Append(toServer, m)
                              /\ Chunk(m) => FileOf(m) = f
                              /\ Sending' => client'.file = client.file
    <3>1. CASE /\ client'.pc = "file"
               /\ \E m \in ToServer : End(m) /\ toServer' = Append(toServer, m)
      <4>1. ~ Sending'
        BY <3>1 DEF Sending
      <4> QED
        BY <3>1, <4>1 DEF Name, Chunk, End
    <3>2. CASE /\ client'.file = client.file
               /\ \E m \in ToServer : /\ Chunk(m) /\ FileOf(m) = <<session, client.file>>
                                      /\ toServer' = Append(toServer, m)
      BY <3>2 DEF Name, Chunk
    <3> QED
      BY <1>4, <3>1, <3>2, SendChunkEffect
  <2>3. Sending' => f' = f
    BY <2>1, <2>2
  <2> HIDE DEF f
  <2>4. Found(Append(toServer, m), server.fd, server.receiving, NameMissed, Sending', f')
    BY <1>1, <1>2, <2>1, <2>2, <2>3, FoundAppend
  <2> QED
    BY <2>1, <2>2, <2>4
<1>5. CASE StartShell \/ ReadOutput \/ Type
  <2>1. /\ UNCHANGED <<scenario, session, server, missed>> /\ NameMissed' = NameMissed
    BY <1>5 DEF StartShell, ReadOutput, Type, NameMissed
  <2>2. ~ Sending'
    BY <1>5, <2>1, ShellEffect DEF Sending, Working
  <2>3. CASE UNCHANGED toServer
    BY <1>1, <2>1, <2>2, <2>3, FoundKept
  <2>4. ASSUME NEW m \in ToServer, Other(m), toServer' = Append(toServer, m)
        PROVE  Found(toServer', server.fd, server.receiving, NameMissed, Sending', f')
    <3> HIDE DEF f
    <3>1. Found(Append(toServer, m), server.fd, server.receiving, NameMissed, Sending', f')
      BY <1>1, <1>2, <2>2, <2>4, FoundAppend DEF Other
    <3> QED
      BY <2>4, <3>1
  <2> QED
    BY <1>5, <2>1, <2>3, <2>4, ShellEffect
<1>6. CASE ReadAnswer \/ NoAnswer \/ NoAnswerYet
  <2>1. /\ UNCHANGED <<server, toServer>> /\ NameMissed' = NameMissed
        /\ Sending' => Sending /\ f' = f
    BY <1>6, AnswerEffect DEF NameMissed
  <2> HIDE DEF f
  <2> QED
    BY <1>1, <2>1, FoundKept
<1>7. CASE NextClient
  <2>1. UNCHANGED <<server, toServer>> /\ NameMissed' = NameMissed /\ ~ Sending'
    BY <1>7, NotSending DEF NextClient, NameMissed
  <2> HIDE DEF f
  <2> QED
    BY <1>1, <2>1, FoundKept
<1>8. CASE ProcessOther \/ ContinueReceivingFile \/ DiskFull
  <2>1. /\ toServer # <<>> /\ toServer' = Tail(toServer)
        /\ server'.fd = IF Name(toServer[1]) THEN toServer[1].data ELSE server.fd
        /\ server'.receiving <=> Name(toServer[1]) \/ (server.receiving /\ ~ End(toServer[1]))
        /\ Sending' = Sending /\ f' = f /\ NameMissed' = NameMissed
    BY <1>8, TakenEffect DEF Sending, Working, NameMissed
  <2> HIDE DEF f
  <2>2. Found(Tail(toServer), server'.fd, server'.receiving, NameMissed, Sending, f)
    BY <1>1, <1>2, <2>1, FoundDone
  <2> QED
    BY <2>1, <2>2
<1>9. CASE Skips
  <2>1. /\ toServer # <<>> /\ toServer' = Tail(toServer)
        /\ server'.fd = server.fd /\ server'.receiving = server.receiving
        /\ ~ Name(toServer[1]) /\ ~ End(toServer[1])
        /\ Sending' = Sending /\ f' = f /\ NameMissed' = NameMissed
    BY <1>9 DEF Skips, SameFile, Other, Sending, Working, NameMissed
  <2> HIDE DEF f
  <2>2. Found(Tail(toServer), server.fd, server.receiving, NameMissed, Sending, f)
    BY <1>1, <1>2, <2>1, FoundDone
  <2> QED
    BY <2>1, <2>2
<1>10. CASE Drops
  <2>1. /\ toServer # <<>> /\ toServer' = Tail(toServer)
        /\ server'.fd = server.fd /\ server'.receiving = server.receiving
        /\ Sending' = Sending /\ f' = f
    BY <1>10 DEF Drops, SameFile, Sending, Working
  <2>2. /\ missed' = missed \cup {toServer[1].type} /\ trouble' = trouble + 1
        /\ trouble \in Nat /\ (missed # {} => trouble > 0)
    BY <1>10 DEF Drops, Types, Counts
  <2>3. NameMissed = FALSE
    BY <2>2 DEF NameMissed, Mild
  <2>4. Name(toServer[1]) => NameMissed' /\ ~ server.receiving
    <3>1. ASSUME Name(toServer[1])
          PROVE  NameMissed' /\ trouble = 0
      BY <2>2, <3>1 DEF Name, NameMissed, Mild
    <3>2. ASSUME Name(toServer[1]), trouble = 0
          PROVE  ~ server.receiving
      <4>1. Closed(toServer, server.receiving, 1)
        BY <1>2, <2>1, <3>2, Shifted DEF ShutInv, Shut
      <4> QED
        BY <4>1 DEF Closed
    <3> QED
      BY <3>1, <3>2
  <2> HIDE DEF f
  <2>5. Found(Tail(toServer), server.fd, server.receiving, NameMissed', Sending, f)
    BY <1>1, <1>2, <2>1, <2>3, <2>4, FoundDropped
  <2> QED
    BY <2>1, <2>5
<1>11. CASE Keeps
  BY <1>1, <1>11 DEF Keeps, SameFile, Sending, Working, NameMissed
<1> QED
  BY <1>3, <1>4, <1>5, <1>6, <1>7, <1>8, <1>9, <1>10, <1>11, OtherEffect
     DEF Next, ClientStep, ServerStep, Timeout

\* As long as nothing went wrong, the answer is the right one.
LEMMA SteadyAnswer ==
  ASSUME Types, Types', ReadAnswer \/ NoAnswer \/ NoAnswerYet, SteadyInv, trouble' = 0,
         Working.mode = "put"
  PROVE  Sending' /\ SteadyInv'
<1>1. /\ UNCHANGED <<scenario, session, server, toServer>> /\ client.pc = "answer"
      /\ Working' = Working
  BY AnswerEffect DEF Working
<1>2. ReadAnswer \/ (NoAnswer /\ trouble = 0)
  BY DEF ReadAnswer, NoAnswer, NoAnswerYet, Types, Counts
<1>3. Steady(toServer, toClient, server.receiving, server.recv, "answer", client.seq)
  BY <1>1, <1>2 DEF SteadyInv, ReadAnswer
<1>4. ASSUME NoAnswer
      PROVE  FALSE
  <2>1. toServer = <<>> /\ toClient = <<>>
    BY <1>4 DEF NoAnswer, NothingComes
  <2> QED
    BY <1>3, <2>1 DEF Steady, Asked, Told
<1>5. toClient # <<>> /\ toClient' = Tail(toClient) /\ Head(toClient) = toClient[1]
      /\ toClient \in Seq(ToClient)
  BY <1>2, <1>4, Shifted DEF ReadAnswer, Types, FrameTypes
<1>6. CASE toClient[1].type \notin Reply
  <2>1. client' = client
    BY <1>2, <1>4, <1>5, <1>6 DEF ReadAnswer
  <2>2. Steady(toServer, Tail(toClient), server.receiving, server.recv, "answer", client.seq)
    BY <1>3, <1>5, <1>6, SteadySkipped
  <2> QED
    BY <1>1, <1>5, <2>1, <2>2 DEF SteadyInv, Sending
<1>7. CASE toClient[1].type \in Reply
  <2>1. /\ IsFor(toClient[1], client.seq)
        /\ Steady(toServer, Tail(toClient), server.receiving, server.recv, "chunk",
                  client.seq + 1)
    BY <1>3, <1>5, <1>7, SteadyAnswered
  <2>2. client' = NextChunk(client, 0)
    BY <1>2, <1>4, <1>5, <1>7, <2>1 DEF ReadAnswer, Answered
  <2>3. client'.pc = "chunk" /\ client'.seq = client.seq + 1
    <3>1. client \in ClientState
      BY DEF Types, ClientTypes
    <3>2. PICK n \in Nat : n = client.seq + 1
      BY <3>1 DEF ClientState
    <3>3. client' = [client EXCEPT !.pc = "chunk", !.seq = n, !.tries = 0, !.errors = 0]
      BY <2>2, <3>2 DEF NextChunk
    <3> QED
      BY <3>1, <3>2, <3>3 DEF ClientState
  <2> QED
    BY <1>1, <1>5, <2>1, <2>3 DEF SteadyInv, Sending
<1> QED
  BY <1>6, <1>7

LEMMA ShutNext ==
  ASSUME Types, Types', Next, ShutInv, SteadyInv
  PROVE  ShutInv'
<1> SUFFICES ASSUME trouble' = 0
             PROVE  Shut(toServer', server'.receiving, Sending')
  BY DEF ShutInv
<1>1. Shut(toServer, server.receiving, Sending)
  BY MildBefore DEF ShutInv
<1>2. toServer \in Seq(ToServer)
  BY DEF Types, FrameTypes
<1>3. CASE PutFile
  <2>1. ~ Sending /\ Working.mode = "put" /\ UNCHANGED <<scenario, session, server>>
    BY <1>3, PutFileEffect DEF PutFile
  <2>2. CASE UNCHANGED toServer
    BY <1>1, <2>1, <2>2 DEF Shut
  <2>3. CASE /\ client'.pc = "chunk"
             /\ \E m \in ToServer : /\ Name(m) /\ m.data = <<session, client.file>>
                                    /\ toServer' = Append(toServer, m)
    <3>1. Sending'
      BY <2>1, <2>3 DEF Sending, Working
    <3>2. PICK m \in ToServer : Name(m) /\ toServer' = Append(toServer, m)
      BY <2>3
    <3>3. Shut(toServer, server.receiving, FALSE)
      BY <1>1, <2>1 DEF Shut
    <3>4. Shut(Append(toServer, m), server.receiving, TRUE)
      BY <1>2, <3>2, <3>3, ShutAppend
    <3> QED
      BY <2>1, <3>1, <3>2, <3>4 DEF Shut
  <2> QED
    BY <1>3, <2>2, <2>3, PutFileEffect
<1>4. CASE SendChunk
  <2>1. Working.mode = "put" /\ UNCHANGED <<scenario, session, server>>
    BY <1>4, SendChunkEffect DEF SendChunk
  <2>2. PICK m \in ToServer : /\ ~ Name(m) /\ toServer' = Append(toServer, m)
                              /\ End(m) \/ client'.pc = "answer"
    BY <1>4, SendChunkEffect DEF Name, End, Chunk
  <2>3. ~ Sending' => End(m)
    BY <2>1, <2>2 DEF Sending, Working
  <2>4. Shut(Append(toServer, m), server.receiving, Sending')
    BY <1>1, <1>2, <2>2, <2>3, ShutAppend
  <2> QED
    BY <2>1, <2>2, <2>4
<1>5. CASE StartShell \/ ReadOutput \/ Type
  <2>1. UNCHANGED <<scenario, session, server>>
    BY <1>5 DEF StartShell, ReadOutput, Type
  <2>2. ~ Sending /\ ~ Sending'
    BY <1>5, <2>1, ShellEffect DEF Sending, Working
  <2>3. CASE UNCHANGED toServer
    BY <1>1, <2>1, <2>2, <2>3 DEF Shut
  <2>4. ASSUME NEW m \in ToServer, Other(m), toServer' = Append(toServer, m)
        PROVE  Shut(toServer', server.receiving, Sending')
    <3>1. Shut(Append(toServer, m), server.receiving, Sending')
      BY <1>1, <1>2, <2>2, <2>4, ShutAppend DEF Other
    <3> QED
      BY <2>4, <3>1
  <2> QED
    BY <1>5, <2>1, <2>3, <2>4, ShellEffect
<1>6. CASE ReadAnswer \/ NoAnswer \/ NoAnswerYet
  <2>1. UNCHANGED <<server, toServer>>
    BY <1>6, AnswerEffect
  <2>2. Sending' \/ ~ Sending
    BY <1>6, SteadyAnswer DEF Sending
  <2> QED
    BY <1>1, <2>1, <2>2 DEF Shut
<1>7. CASE NextClient
  <2>1. UNCHANGED <<server, toServer>> /\ ~ Sending
    BY <1>7, NotSending DEF NextClient
  <2> QED
    BY <1>1, <2>1 DEF Shut
<1>8. CASE ProcessOther \/ ContinueReceivingFile \/ DiskFull
  <2>1. /\ toServer # <<>> /\ toServer' = Tail(toServer)
        /\ server'.receiving <=> Name(toServer[1]) \/ (server.receiving /\ ~ End(toServer[1]))
        /\ Sending' = Sending
    BY <1>8, TakenEffect DEF Sending, Working
  <2>2. Shut(Tail(toServer), server'.receiving, Sending)
    BY <1>1, <1>2, <2>1, ShutDone
  <2> QED
    BY <2>1, <2>2
<1>9. CASE Skips
  <2>1. /\ toServer # <<>> /\ toServer' = Tail(toServer)
        /\ server'.receiving = server.receiving
        /\ ~ Name(toServer[1]) /\ ~ End(toServer[1]) /\ Sending' = Sending
    BY <1>9 DEF Skips, SameFile, Other, Sending, Working
  <2>2. Shut(Tail(toServer), server.receiving, Sending)
    BY <1>1, <1>2, <2>1, ShutDone
  <2> QED
    BY <2>1, <2>2
<1>10. ~ Drops
  BY DEF Drops, Types, Counts
<1>11. CASE Keeps
  BY <1>1, <1>11 DEF Keeps, SameFile, Sending, Working
<1> QED
  BY <1>3, <1>4, <1>5, <1>6, <1>7, <1>8, <1>9, <1>10, <1>11, OtherEffect
     DEF Next, ClientStep, ServerStep, Timeout

LEMMA SteadyNext ==
  ASSUME Types, Types', Next, SteadyInv
  PROVE  SteadyInv'
<1> SUFFICES ASSUME trouble' = 0, Working'.mode = "put"
             PROVE  Steady(toServer', toClient', server'.receiving, server'.recv,
                           client'.pc, client'.seq)
  BY DEF SteadyInv
<1>1. trouble = 0
  BY MildBefore
<1>2. toServer \in Seq(ToServer) /\ toClient \in Seq(ToClient)
  BY DEF Types, FrameTypes
<1>3. CASE NextClient
  <2>1. toServer' = <<>> /\ toClient' = <<>>
    BY <1>3 DEF NextClient
  <2> QED
    BY <1>3, <2>1, NotSending DEF Steady, NoStart, NoChunk, NoReply
<1>4. ASSUME UNCHANGED <<scenario, session>>
      PROVE  /\ Working.mode = "put"
             /\ Steady(toServer, toClient, server.receiving, server.recv, client.pc, client.seq)
  BY <1>1, <1>4 DEF SteadyInv, Working
<1>5. CASE PutFile
  <2>1. /\ UNCHANGED <<scenario, session, server, toClient>> /\ client.pc = "file"
    BY <1>5 DEF PutFile
  <2>2. Steady(toServer, toClient, server.receiving, server.recv, "file", client.seq)
    BY <1>4, <2>1
  <2>3. CASE client'.pc = "done" /\ UNCHANGED toServer
    BY <2>1, <2>2, <2>3 DEF Steady
  <2>4. CASE /\ client'.pc = "chunk" /\ client'.seq = 1
             /\ \E m \in ToServer : /\ Name(m) /\ m.data = <<session, client.file>>
                                    /\ toServer' = Append(toServer, m)
    <3>1. PICK m \in ToServer : Name(m) /\ toServer' = Append(toServer, m)
      BY <2>4
    <3>2. Steady(Append(toServer, m), toClient, server.receiving, server.recv, "chunk", 1)
      BY <1>2, <2>2, <3>1, SteadyName
    <3> QED
      BY <2>1, <2>4, <3>1, <3>2
  <2> QED
    BY <1>5, <2>3, <2>4, PutFileEffect
<1>6. CASE SendChunk
  <2>1. /\ UNCHANGED <<scenario, session, server, toClient>> /\ client.pc = "chunk"
    BY <1>6 DEF SendChunk
  <2>2. Steady(toServer, toClient, server.receiving, server.recv, "chunk", client.seq)
    BY <1>4, <2>1
  <2>3. CASE /\ client'.pc = "file"
             /\ \E m \in ToServer : End(m) /\ toServer' = Append(toServer, m)
    <3>1. PICK m \in ToServer : End(m) /\ toServer' = Append(toServer, m)
      BY <2>3
    <3>2. Steady(Append(toServer, m), toClient, server.receiving, server.recv, "file",
                 client'.seq)
      BY <1>2, <2>2, <3>1, SteadyEnd
    <3> QED
      BY <2>1, <2>3, <3>1, <3>2
  <2>4. CASE /\ client'.pc = "answer" /\ client'.seq = client.seq
             /\ \E m \in ToServer : /\ Chunk(m) /\ m.seq = client.seq
                                    /\ FileOf(m) = <<session, client.file>>
                                    /\ toServer' = Append(toServer, m)
    <3>1. PICK m \in ToServer : Chunk(m) /\ m.seq = client.seq /\ toServer' = Append(toServer, m)
      BY <2>4
    <3>2. Steady(Append(toServer, m), toClient, server.receiving, server.recv, "answer",
                 client.seq)
      BY <1>2, <2>2, <3>1, SteadyChunk
    <3> QED
      BY <2>1, <2>4, <3>1, <3>2
  <2> QED
    BY <1>6, <2>3, <2>4, SendChunkEffect
<1>7. CASE StartShell \/ ReadOutput \/ Type
  <2>1. UNCHANGED <<scenario, session>>
    BY <1>7 DEF StartShell, ReadOutput, Type
  <2> QED
    BY <1>4, <1>7, <2>1, ShellEffect
<1>8. CASE ReadAnswer \/ NoAnswer \/ NoAnswerYet
  <2>1. UNCHANGED <<scenario, session>>
    BY <1>8, AnswerEffect
  <2>2. SteadyInv'
    BY <1>4, <1>8, <2>1, SteadyAnswer
  <2> QED
    BY <2>2 DEF SteadyInv
<1>9. CASE ProcessOther
  <2>1. /\ UNCHANGED <<scenario, session, client>>
        /\ toServer # <<>> /\ toServer' = Tail(toServer) /\ Head(toServer) = toServer[1]
        /\ 1 \in DOMAIN toServer /\ ~ Chunk(toServer[1])
    BY <1>2, <1>9, Shifted DEF ProcessOther, Chunk
  <2>2. Steady(toServer, toClient, server.receiving, server.recv, client.pc, client.seq)
    BY <1>4, <2>1
  <2>3. toServer[1].type # "start_shell_msg"
    BY <2>1, <2>2 DEF Steady, NoStart
  <2>4. UNCHANGED toClient
    BY <1>9, <2>1, <2>3 DEF ProcessOther
  <2>5. /\ Name(toServer[1]) => server'.receiving /\ server'.recv = 1
        /\ Name(toServer[1]) \/ End(toServer[1])
             \/ ((server'.receiving <=> server.receiving) /\ server'.recv = server.recv)
    BY <1>9, <2>1, OtherServer DEF Name, End
  <2>6. Steady(Tail(toServer), toClient, server'.receiving, server'.recv, client.pc, client.seq)
    BY <1>2, <2>1, <2>2, <2>5, SteadyDone
  <2> QED
    BY <2>1, <2>4, <2>6
<1>10. CASE ContinueReceivingFile
  <2>1. /\ UNCHANGED <<scenario, session, client>>
        /\ toServer # <<>> /\ toServer' = Tail(toServer) /\ Head(toServer) = toServer[1]
        /\ Chunk(toServer[1])
    BY <1>2, <1>10, Shifted DEF ContinueReceivingFile, Chunk
  <2>2. Steady(toServer, toClient, server.receiving, server.recv, client.pc, client.seq)
    BY <1>4, <2>1
  <2>3. server.recv \in Nat
    BY DEF Types, ServerTypes, ServerState
  <2>4. PICK m : m = Msg("recv_ok_msg", server.recv, Junk)
    OBVIOUS
  <2>5. m \in ToClient /\ m.type = "recv_ok_msg" /\ m.seq = server.recv
    BY <2>3, <2>4 DEF Msg, ToClient, MsgType, Reply, Junk
  <2>6. /\ server.receiving /\ toServer[1].seq = server.recv
        /\ Steady(Tail(toServer), Append(toClient, m), server.receiving, server.recv + 1,
                  client.pc, client.seq)
    BY <1>2, <2>1, <2>2, <2>3, <2>5, SteadyTaken
  <2>7. toClient' = Append(toClient, m)
    <3>1. PICK sv : sv = [server EXCEPT !.known = TRUE]
      OBVIOUS
    <3>2. sv.receiving = server.receiving /\ sv.recv = server.recv
      BY <3>1, ServerGoesOn
    <3> QED
      BY <1>10, <2>1, <2>4, <2>6, <3>1, <3>2 DEF ContinueReceivingFile, Wanted, NextOne
  <2>8. server'.receiving = server.receiving /\ server'.recv = server.recv + 1
    BY <1>10, <2>1, <2>6, ChunkServer
  <2> QED
    BY <2>1, <2>6, <2>7, <2>8
<1>11. ~ DiskFull /\ ~ Lose /\ ~ NoAcknowledgementYet
  BY <1>1 DEF DiskFull, Lose, NoAcknowledgementYet
<1>12. CASE ForwardOutput \/ ReadAcknowledgement \/ NoAcknowledgement \/ ShellWrites
  <2>1. ~ Drops
    BY DEF Drops, Types, Counts
  <2>2. UNCHANGED <<scenario, session, client>>
    BY <1>12 DEF ForwardOutput, ReadAcknowledgement, NoAcknowledgement, ShellWrites
  <2>3. Steady(toServer, toClient, server.receiving, server.recv, client.pc, client.seq)
    BY <1>4, <2>2
  <2>4. Steady(toServer', toClient, server'.receiving, server'.recv, client.pc, client.seq)
    <3>1. CASE Keeps
      BY <2>3, <3>1 DEF Keeps, SameFile
    <3>2. CASE Skips
      <4>1. /\ toServer # <<>> /\ toServer' = Tail(toServer) /\ ~ Chunk(toServer[1])
            /\ ~ Name(toServer[1])
            /\ server'.receiving = server.receiving /\ server'.recv = server.recv
        BY <3>2 DEF Skips, SameFile, Other
      <4>2. Steady(Tail(toServer), toClient, server.receiving, server.recv, client.pc,
                   client.seq)
        BY <1>2, <2>3, <4>1, SteadyDone
      <4> QED
        BY <4>1, <4>2
    <3> QED
      BY <1>12, <2>1, <3>1, <3>2, OtherEffect
  <2>5. \/ UNCHANGED toClient
        \/ \E m \in ToClient : m.type \notin Reply /\ toClient' = Append(toClient, m)
    <3>1. CASE ShellWrites
      BY <3>1 DEF ShellWrites
    <3>2. ASSUME SendsOutput
          PROVE  \E m \in ToClient : m.type \notin Reply /\ toClient' = Append(toClient, m)
      <4>1. PICK m : m = Msg("shell_response_msg", server'.seq, Head(server.out))
        OBVIOUS
      <4>2. server'.seq \in Nat /\ server.out \in Seq(Nat) /\ server.out # <<>>
        BY <3>2 DEF Types, ServerTypes, ServerState, SendsOutput
      <4>3. Head(server.out) \in Nat
        BY <4>2, Shifted
      <4>4. m \in ToClient /\ m.type \notin Reply
        BY <4>1, <4>2, <4>3 DEF Msg, ToClient, MsgType, Reply
      <4> QED
        BY <3>2, <4>1, <4>4 DEF SendsOutput
    <3> QED
      BY <1>12, <3>1, <3>2, OutputSteps DEF EndsOutput
  <2>6. ASSUME NEW m \in ToClient, m.type \notin Reply, toClient' = Append(toClient, m)
        PROVE  Steady(toServer', Append(toClient, m), server'.receiving, server'.recv,
                      client.pc, client.seq)
    BY <1>2, <2>4, <2>6, SteadySent
  <2> QED
    BY <2>2, <2>4, <2>5, <2>6
<1> QED
  BY <1>3, <1>5, <1>6, <1>7, <1>8, <1>9, <1>10, <1>11, <1>12
    DEF Next, ClientStep, ServerStep, Timeout

-----------------------------------------------------------------------------
(* What is on the disk.                                                    *)

LEMMA FileNumbers ==
  ASSUME Types, NEW f \in FileNames
  PROVE  f \in Nat \X Nat
<1>1. PICK s \in DOMAIN scenario.sessions,
           i \in UNION {DOMAIN scenario.sessions[t].files : t \in DOMAIN scenario.sessions} :
        f = <<s, i>>
  BY DEF FileNames
<1>2. PICK t \in DOMAIN scenario.sessions : i \in DOMAIN scenario.sessions[t].files
  BY <1>1
<1>3. scenario.sessions \in Seq(Session)
  BY Scene DEF Types
<1>4. scenario.sessions[t] \in Session
  BY <1>2, <1>3
<1>5. scenario.sessions[t].files \in Seq(Nat)
  BY <1>4 DEF Session
<1>6. s \in Nat /\ i \in Nat
  BY <1>2, <1>3, <1>5
<1> QED
  BY <1>1, <1>6

\* The chunk of a file with a number.
LEMMA OneChunk ==
  ASSUME NEW f \in Nat \X Nat, NEW i \in Nat
  PROVE  f \o <<i>> = <<f[1], f[2], i>> /\ f \o <<i>> \in Seq(Nat)
<1>1. PICK a \in Nat, b \in Nat : f = <<a, b>>
  OBVIOUS
<1>2. f[1] = a /\ f[2] = b
  BY <1>1
<1>3. /\ <<a, b>> \in Seq(Nat) /\ Len(<<a, b>>) = 2 /\ <<i>> \in Seq(Nat) /\ Len(<<i>>) = 1
      /\ <<a, b>>[1] = a /\ <<a, b>>[2] = b /\ <<i>>[1] = i
  OBVIOUS
<1>4. PICK d : d = <<a, b, i>>
  OBVIOUS
<1>5. d \in Seq(Nat) /\ Len(d) = 3 /\ d[1] = a /\ d[2] = b /\ d[3] = i
  BY <1>4
<1>6. PICK c : c = <<a, b>> \o <<i>>
  OBVIOUS
<1>7. c \in Seq(Nat) /\ Len(c) = 3 /\ c[1] = a /\ c[2] = b /\ c[3] = i
  BY <1>3, <1>6
<1>8. \A k \in 1 .. 3 : k = 1 \/ k = 2 \/ k = 3
  OBVIOUS
<1>9. c = d
  BY <1>5, <1>7, <1>8, SeqEqual
<1> QED
  BY <1>1, <1>2, <1>4, <1>6, <1>7, <1>9

LEMMA SomeChunks ==
  ASSUME NEW f \in Nat \X Nat, NEW n \in Nat
  PROVE  /\ Chunks(f, n) \in Seq(Seq(Nat)) /\ Len(Chunks(f, n)) = n
         /\ \A i \in 1 .. n : Chunks(f, n)[i] = f \o <<i>>
<1>1. ASSUME NEW i \in 1 .. n
      PROVE  f \o <<i>> \in Seq(Nat)
  <2>1. i \in Nat
    OBVIOUS
  <2> QED
    BY <2>1, OneChunk
<1>2. Chunks(f, n) \in [1 .. n -> Seq(Nat)]
  BY <1>1 DEF Chunks
<1>3. \A i \in 1 .. n : Chunks(f, n)[i] = f \o <<i>>
  BY DEF Chunks
<1>4. Chunks(f, n) \in Seq(Seq(Nat))
  BY <1>2
<1> QED
  BY <1>2, <1>3, <1>4

LEMMA NoChunks ==
  ASSUME NEW f \in Nat \X Nat
  PROVE  Chunks(f, 0) = <<>>
BY SomeChunks, EmptySeq

LEMMA MoreChunks ==
  ASSUME NEW f \in Nat \X Nat, NEW n \in Nat \ {0}
  PROVE  Append(Chunks(f, n - 1), f \o <<n>>) = Chunks(f, n)
<1>1. PICK k \in Nat : k = n - 1 /\ n = k + 1
  OBVIOUS
<1>2. PICK c : c = Chunks(f, k)
  OBVIOUS
<1>3. c \in Seq(Seq(Nat)) /\ Len(c) = k /\ \A i \in 1 .. k : c[i] = f \o <<i>>
  BY <1>2, SomeChunks
<1>4. PICK d : d = Chunks(f, n)
  OBVIOUS
<1>5. d \in Seq(Seq(Nat)) /\ Len(d) = n /\ \A i \in 1 .. n : d[i] = f \o <<i>>
  BY <1>4, SomeChunks
<1>6. PICK x : x = f \o <<n>>
  OBVIOUS
<1>7. x \in Seq(Nat)
  BY <1>6, OneChunk
<1>8. PICK e : e = Append(c, x)
  OBVIOUS
<1>9. /\ e \in Seq(Seq(Nat)) /\ Len(e) = n /\ e[n] = x
      /\ \A i \in 1 .. k : e[i] = c[i]
  BY <1>1, <1>3, <1>7, <1>8, Appended
<1>10. ASSUME NEW i \in 1 .. n
       PROVE  e[i] = d[i]
  <2>1. d[i] = f \o <<i>>
    BY <1>5
  <2>2. CASE i = n
    BY <1>6, <1>9, <2>1, <2>2
  <2>3. CASE i # n
    <3>1. i \in 1 .. k
      BY <1>1, <2>3
    <3>2. c[i] = f \o <<i>>
      BY <1>3, <3>1
    <3> QED
      BY <1>9, <2>1, <3>1, <3>2
  <2> QED
    BY <2>2, <2>3
<1>11. e = d
  BY <1>5, <1>9, <1>10, SeqEqual
<1> QED
  BY <1>1, <1>2, <1>4, <1>6, <1>8, <1>11

LEMMA WrittenNext ==
  ASSUME Types, Types', Next, FoundInv, WrittenInv
  PROVE  WrittenInv'
<1> SUFFICES ASSUME Mild', NeverFull'
             PROVE  Written'
  BY DEF WrittenInv
<1>1. Mild /\ NeverFull /\ Written
  BY MildBefore DEF WrittenInv
<1>2. FileNames' = FileNames /\ UNCHANGED scenario
  <2>1. UNCHANGED scenario
    BY DEF Next, ClientStep, ServerStep, Timeout, PutFile, SendChunk, StartShell, ReadAnswer,
       NoAnswer, ReadOutput, ProcessOther, ContinueReceivingFile, ForwardOutput,
       ReadAcknowledgement, NoAcknowledgement, NoAnswerYet, NoAcknowledgementYet, Type,
       DiskFull, ShellWrites, Lose, NextClient
  <2> QED
    BY <2>1 DEF FileNames
<1>3. /\ DOMAIN disk = FileNames /\ server.recv \in Nat /\ server'.recv \in Nat
      /\ server.receiving => server.fd \in FileNames
  BY DEF Types, Counts, ServerTypes, ServerState
<1>4. CASE UNCHANGED disk /\ SameFile
  BY <1>1, <1>2, <1>4 DEF Written, SameFile
<1>5. CASE ProcessOther
  <2>1. PICK h : h = Head(toServer)
    OBVIOUS
  <2>2. Sendable(h)
    BY <1>5, <2>1, Shifted DEF ProcessOther, Types, FrameTypes
  <2>3. CASE h.type = "put_name_msg"
    <3>1. PICK f \in FileNames : f = h.data
      BY <2>2, <2>3 DEF Sendable
    <3>2. disk' = [disk EXCEPT ![f] = <<>>]
      BY <1>5, <2>1, <2>3, <3>1 DEF ProcessOther
    <3>3. Chunks(f, 0) = <<>>
      BY NoChunks, FileNumbers
    <3>4. disk'[f] = Chunks(f, 0) /\ \A g \in FileNames \ {f} : disk'[g] = disk[g]
      BY <1>3, <3>2, <3>3
    <3>5. server'.receiving /\ server'.fd = f /\ server'.recv = 1
      BY <1>5, <2>1, <2>3, <3>1, OtherServer
    <3>6. \A g \in FileNames : \E n \in Nat : disk'[g] = Chunks(g, n)
      BY <1>1, <3>4 DEF Written
    <3>7. server'.recv > 0 /\ disk'[server'.fd] = Chunks(server'.fd, server'.recv - 1)
      BY <3>4, <3>5
    <3> QED
      BY <1>2, <3>6, <3>7 DEF Written
  <2>4. CASE h.type # "put_name_msg"
    <3>1. UNCHANGED disk
      BY <1>5, <2>1, <2>4 DEF ProcessOther
    <3>2. /\ server'.fd = server.fd /\ server'.recv = server.recv
          /\ server'.receiving => server.receiving
      BY <1>5, <2>1, <2>4, OtherServer
    <3> QED
      BY <1>1, <1>2, <3>1, <3>2 DEF Written
  <2> QED
    BY <2>3, <2>4
<1>6. CASE ContinueReceivingFile
  <2>1. PICK h : h = Head(toServer)
    OBVIOUS
  <2>2. /\ Sendable(h) /\ h = toServer[1] /\ 1 \in DOMAIN toServer /\ Chunk(h)
    BY <1>6, <2>1, Shifted DEF ContinueReceivingFile, Types, FrameTypes, Chunk
  <2>3. PICK sv : sv = [server EXCEPT !.known = TRUE]
    OBVIOUS
  <2>4. sv.receiving = server.receiving /\ sv.recv = server.recv /\ sv.fd = server.fd
    BY <2>3, ServerGoesOn
  <2>5. CASE server.receiving /\ h.seq = server.recv
    <3>1. PICK f \in FileNames : f = server.fd
      BY <1>3, <2>5
    <3>2. PICK n \in Nat : n = server.recv
      BY <1>3
    <3>3. f \in Nat \X Nat
      BY FileNumbers
    <3>4. FileOf(h) = f
      <4>1. Finds(toServer, server.fd, server.receiving, NameMissed, 1, FileOf(h))
        BY <1>1, <2>2 DEF FoundInv, Found
      <4>2. ~ Closed(toServer, server.receiving, 1)
        BY <2>5 DEF Closed
      <4> QED
        BY <3>1, <4>1, <4>2 DEF Finds, Named
    <3>5. h.data = f \o <<n>>
      <4>1. h.data \in Nat \X Nat \X Nat /\ h.data[3] = n
        BY <2>2, <2>5, <3>2 DEF Sendable, Chunk
      <4>2. <<h.data[1], h.data[2]>> = f
        BY <3>4 DEF FileOf
      <4>3. h.data = <<f[1], f[2], n>>
        BY <4>1, <4>2
      <4> QED
        BY <3>3, <4>3, OneChunk
    <3>6. n # 0 /\ disk[f] = Chunks(f, n - 1)
      BY <1>1, <2>5, <3>1, <3>2 DEF Written
    <3>7. disk' = [disk EXCEPT ![f] = Append(disk[f], h.data)]
      BY <1>6, <2>1, <2>3, <2>4, <2>5, <3>1 DEF ContinueReceivingFile, Wanted, NextOne
    <3>8. disk'[f] = Chunks(f, n) /\ \A g \in FileNames \ {f} : disk'[g] = disk[g]
      BY <1>3, <3>3, <3>5, <3>6, <3>7, MoreChunks
    <3>9. server'.fd = f /\ server'.recv = n + 1
      BY <1>6, <2>1, <2>5, <3>1, <3>2, ChunkServer
    <3>10. \A g \in FileNames : \E k \in Nat : disk'[g] = Chunks(g, k)
      BY <1>1, <3>8 DEF Written
    <3>11. server'.recv > 0 /\ server'.recv - 1 = n
      BY <3>9
    <3>12. disk'[server'.fd] = Chunks(server'.fd, server'.recv - 1)
      BY <3>8, <3>9, <3>11
    <3> QED
      BY <1>2, <3>10, <3>11, <3>12 DEF Written
  <2>6. CASE ~ (server.receiving /\ h.seq = server.recv)
    <3>1. UNCHANGED disk
      BY <1>6, <2>1, <2>3, <2>4, <2>6 DEF ContinueReceivingFile, Wanted, NextOne
    <3>2. SameFile
      BY <1>6, <2>1, <2>6, ChunkServer DEF SameFile
    <3> QED
      BY <1>4, <3>1, <3>2
  <2> QED
    BY <2>5, <2>6
<1>7. ~ DiskFull
  <2>1. ASSUME DiskFull PROVE FALSE
    <3>1. /\ "full" \in DOMAIN left /\ left["full"] \in Nat
          /\ left["full"] <= scenario["full"] /\ scenario["full"] = scenario.full
          /\ scenario["full"] \in Nat
      BY Scene DEF Types, Counts
    <3>2. left'["full"] = left["full"] - 1
      BY <2>1, <3>1, Spending DEF DiskFull, Types
    <3> QED
      BY <1>2, <3>1, <3>2 DEF NeverFull
  <2> QED
    BY <2>1
<1>8. CASE \/ PutFile \/ SendChunk \/ StartShell \/ ReadAnswer \/ NoAnswer \/ NoAnswerYet
           \/ ReadOutput \/ Type \/ NextClient
  BY <1>4, <1>8 DEF PutFile, SendChunk, StartShell, ReadAnswer, NoAnswer, NoAnswerYet,
     ReadOutput, Type, NextClient, SameFile
<1>9. CASE Drops \/ Skips \/ Keeps
  BY <1>4, <1>9 DEF Drops, Skips, Keeps
<1> QED
  BY <1>5, <1>6, <1>7, <1>8, <1>9, OtherEffect DEF Next, ClientStep, ServerStep, Timeout

LEMMA InitFiles == Init => FileInv
<1> SUFFICES ASSUME Init PROVE FileInv
  OBVIOUS
<1>0. Types
  BY InitTypes
<1>1. /\ toServer = <<>> /\ toClient = <<>> /\ ~ server.receiving
      /\ disk = [f \in FileNames |-> <<>>]
  BY DEF Init
<1>2. client.pc \notin {"chunk", "answer"}
  BY <1>0, Scene, FirstClient DEF Init, Types, Working
<1>3. FoundInv
  BY <1>1, <1>2 DEF FoundInv, Found, Sending
<1>4. Closed(<<>>, server.receiving, 1)
  BY <1>1 DEF Closed
<1>5. ShutInv
  BY <1>1, <1>4 DEF ShutInv, Shut
<1>6. SteadyInv
  BY <1>1, <1>2 DEF SteadyInv, Steady, NoStart, NoChunk, NoReply
<1>7. \A f \in FileNames : disk[f] = Chunks(f, 0)
  BY <1>0, <1>1, NoChunks, FileNumbers
<1>8. WrittenInv
  BY <1>1, <1>7 DEF WrittenInv, Written
<1> QED
  BY <1>3, <1>5, <1>6, <1>8 DEF FileInv

LEMMA NextFiles ==
  ASSUME Types, Types', FileInv, [Next]_vars
  PROVE  FileInv'
<1>1. CASE Next
  BY <1>1, FoundNext, ShutNext, SteadyNext, WrittenNext DEF FileInv
<1>2. CASE UNCHANGED vars
  BY <1>2 DEF vars, FileInv, FoundInv, ShutInv, SteadyInv, WrittenInv, Written, Sending,
     Working, NameMissed, Mild, NeverFull, FileNames
<1> QED
  BY <1>1, <1>2

\* What end_receiving_file and continue_receiving_file leave on the disk is the
\* beginning of the file that was sent, for any clients one after the other,
\* and any frames lost or late, unless the server missed the name of a file and
\* more than that went wrong, or its disk was full.
THEOREM FilesKeptApart == Spec => []NoMixture
<1>1. Types /\ FileInv => NoMixture
  <2> SUFFICES ASSUME Types, FileInv, NeverFull, Mild, NEW f \in FileNames
               PROVE  Prefix(f)
    BY DEF NoMixture, Mild, NameMissed
  <2>1. PICK n \in Nat : disk[f] = Chunks(f, n)
    BY DEF FileInv, WrittenInv, Written
  <2>2. Len(disk[f]) = n
    BY <2>1, SomeChunks, FileNumbers
  <2> QED
    BY <2>1, <2>2 DEF Prefix
<1>2. Init => Types /\ FileInv
  BY InitTypes, InitFiles
<1>3. Types /\ FileInv /\ [Next]_vars => Types' /\ FileInv'
  BY NextTypes, NextFiles
<1> QED
  BY <1>1, <1>2, <1>3, PTL DEF Spec
-----------------------------------------------------------------------------
(* A shell that does not go deaf. Of the numbers the server has sent, the  *)
(* client is past each, or has enough frames with it coming: as many as    *)
(* the server sends of one output, less what went wrong.                   *)

\* Outputs under way that were sent since the server began to count anew.
Live(q) == {i \in DOMAIN q : IsOutput(q[i]) /\ \A j \in DOMAIN q : j >= i => q[j].type \notin Reply}
Sends(q, k) == {i \in Live(q) : q[i].seq = k}
Answers(q) == {i \in DOMAIN q : q[i].type \in Reply}

\* Numbers below over have been sent, k of them t[k] times; r is the number the
\* client expects, and x what went wrong.
Covered(q, r, over, t, x) ==
  \A k \in Nat : r <= k /\ k < over => t[k] <= Cardinality(Sends(q, k)) + x
InTurn(q, over) ==
  /\ \A i \in Live(q) : q[i].seq < over
  /\ \A i, j \in Live(q) : i < j => q[i].seq <= q[j].seq

LEMMA LiveFinite ==
  ASSUME NEW q \in Seq(ToClient), NEW k
  PROVE  /\ Live(q) \subseteq 1 .. Len(q) /\ Len(q) \in Nat
         /\ IsFiniteSet(Sends(q, k)) /\ Cardinality(Sends(q, k)) \in Nat
<1>1. DOMAIN q = 1 .. Len(q) /\ Len(q) \in Nat
  OBVIOUS
<1>2. Sends(q, k) \in SUBSET (1 .. Len(q)) /\ Live(q) \subseteq 1 .. Len(q)
  BY <1>1 DEF Sends, Live
<1>3. IsFiniteSet(1 .. Len(q))
  BY <1>1, FS_Interval
<1> QED
  BY <1>1, <1>2, <1>3, FS_Subset, FS_CardinalityType

\* An output joins the queue.
LEMMA SendsMore ==
  ASSUME NEW q \in Seq(ToClient), NEW m \in ToClient, IsOutput(m)
  PROVE  /\ Live(Append(q, m)) = Live(q) \cup {Len(q) + 1}
         /\ \A i \in Live(q) : Append(q, m)[i] = q[i]
         /\ \A k : Cardinality(Sends(Append(q, m), k))
                     = Cardinality(Sends(q, k)) + IF k = m.seq THEN 1 ELSE 0
<1>1. /\ DOMAIN q = 1 .. Len(q) /\ Len(q) \in Nat
      /\ DOMAIN Append(q, m) = 1 .. Len(q) + 1
      /\ Append(q, m)[Len(q) + 1] = m
      /\ \A i \in 1 .. Len(q) : Append(q, m)[i] = q[i]
  BY Appended
<1>2. PICK q2 : q2 = Append(q, m)
  OBVIOUS
<1>3. m.type \notin Reply
  BY DEF IsOutput, Reply
<1>4. Live(q) \subseteq 1 .. Len(q)
  BY <1>1 DEF Live
<1>5. Live(q2) = Live(q) \cup {Len(q) + 1}
  <2>1. Len(q) + 1 \in Live(q2)
    BY <1>1, <1>2, <1>3 DEF Live
  <2>2. \A i \in 1 .. Len(q) : i \in Live(q2) <=> i \in Live(q)
    <3> SUFFICES ASSUME NEW i \in 1 .. Len(q)
                 PROVE  i \in Live(q2) <=> i \in Live(q)
      OBVIOUS
    <3>1. IsOutput(q2[i]) <=> IsOutput(q[i])
      BY <1>1, <1>2
    <3>2. (\A j \in 1 .. Len(q) + 1 : j >= i => q2[j].type \notin Reply)
            <=> \A j \in 1 .. Len(q) : j >= i => q[j].type \notin Reply
      <4>1. ASSUME \A j \in 1 .. Len(q) + 1 : j >= i => q2[j].type \notin Reply,
                   NEW j \in 1 .. Len(q), j >= i
            PROVE  q[j].type \notin Reply
        BY <1>1, <1>2, <4>1
      <4>2. ASSUME \A j \in 1 .. Len(q) : j >= i => q[j].type \notin Reply,
                   NEW j \in 1 .. Len(q) + 1, j >= i
            PROVE  q2[j].type \notin Reply
        <5>1. CASE j = Len(q) + 1
          BY <1>1, <1>2, <1>3, <5>1
        <5>2. CASE j # Len(q) + 1
          BY <1>1, <1>2, <4>2, <5>2
        <5> QED
          BY <5>1, <5>2
      <4> QED
        BY <4>1, <4>2
    <3>3. i \in DOMAIN q /\ i \in DOMAIN q2
      BY <1>1, <1>2
    <3> QED
      BY <1>1, <1>2, <3>1, <3>2, <3>3 DEF Live
  <2>3. Live(q2) \subseteq 1 .. Len(q) + 1
    BY <1>1, <1>2 DEF Live
  <2> QED
    BY <1>1, <1>4, <2>1, <2>2, <2>3
<1>6. \A i \in Live(q) : q2[i] = q[i]
  BY <1>1, <1>2, <1>4
<1>7. ASSUME NEW k
      PROVE  Cardinality(Sends(q2, k)) = Cardinality(Sends(q, k)) + IF k = m.seq THEN 1 ELSE 0
  <2>1. Len(q) + 1 \notin Sends(q, k)
    BY <1>1, <1>4 DEF Sends
  <2>2. Sends(q2, k) = IF k = m.seq THEN Sends(q, k) \cup {Len(q) + 1} ELSE Sends(q, k)
    BY <1>1, <1>2, <1>5, <1>6, <2>1 DEF Sends
  <2> QED
    <3>1. /\ IsFiniteSet(Sends(q, k)) /\ Cardinality(Sends(q, k)) \in Nat
          /\ Cardinality(Sends(q, k) \cup {Len(q) + 1}) = Cardinality(Sends(q, k)) + 1
      BY <2>1, LiveFinite, FS_AddElement
    <3> QED
      BY <2>2, <3>1
<1> QED
  BY <1>2, <1>5, <1>6, <1>7

\* The first frame leaves it, which was one of those sends at most.
LEMMA SendsLess ==
  ASSUME NEW q \in Seq(ToClient), q # <<>>
  PROVE  /\ \A i \in Live(Tail(q)) : i + 1 \in Live(q) /\ Tail(q)[i] = q[i + 1]
         /\ \A k : Cardinality(Sends(q, k)) <=
                     Cardinality(Sends(Tail(q), k)) + IF 1 \in Sends(q, k) THEN 1 ELSE 0
<1>1. /\ DOMAIN q = 1 .. Len(q) /\ Len(q) \in Nat \ {0}
      /\ DOMAIN Tail(q) = 1 .. Len(q) - 1
      /\ \A i \in 1 .. Len(q) - 1 : Tail(q)[i] = q[i + 1]
      /\ Tail(q) \in Seq(ToClient)
  BY Shifted
<1>2. PICK q2 : q2 = Tail(q)
  OBVIOUS
<1>3. \A i \in Live(q2) : i + 1 \in Live(q) /\ q2[i] = q[i + 1]
  <2> SUFFICES ASSUME NEW i \in Live(q2)
               PROVE  i + 1 \in Live(q) /\ q2[i] = q[i + 1]
    OBVIOUS
  <2>1. i \in 1 .. Len(q) - 1 /\ IsOutput(q2[i]) /\ q2[i] = q[i + 1]
    BY <1>1, <1>2 DEF Live
  <2>2. ASSUME NEW j \in 1 .. Len(q), j >= i + 1
        PROVE  q[j].type \notin Reply
    <3>1. j - 1 \in 1 .. Len(q) - 1 /\ j - 1 >= i
      BY <2>1, <2>2
    <3>2. q2[j - 1].type \notin Reply
      BY <1>1, <1>2, <3>1 DEF Live
    <3>3. q2[j - 1] = q[j - 1 + 1] /\ j - 1 + 1 = j
      BY <1>1, <1>2, <3>1
    <3> QED
      BY <3>2, <3>3
  <2>3. i + 1 \in 1 .. Len(q)
    BY <1>1, <2>1
  <2> QED
    BY <1>1, <2>1, <2>2, <2>3 DEF Live
<1>4. \A i \in Live(q) : i # 1 => i - 1 \in Live(q2) /\ q2[i - 1] = q[i]
  <2> SUFFICES ASSUME NEW i \in Live(q), i # 1
               PROVE  i - 1 \in Live(q2) /\ q2[i - 1] = q[i]
    OBVIOUS
  <2>1. i \in 1 .. Len(q) /\ i - 1 \in 1 .. Len(q) - 1 /\ i - 1 + 1 = i
    BY <1>1 DEF Live
  <2>2. q2[i - 1] = q[i] /\ IsOutput(q[i])
    BY <1>1, <1>2, <2>1 DEF Live
  <2>3. ASSUME NEW j \in 1 .. Len(q) - 1, j >= i - 1
        PROVE  q2[j].type \notin Reply
    <3>1. j + 1 \in 1 .. Len(q) /\ j + 1 >= i
      BY <1>1, <2>1, <2>3
    <3> QED
      BY <1>1, <1>2, <3>1 DEF Live
  <2> QED
    BY <1>1, <1>2, <2>1, <2>2, <2>3 DEF Live
<1>5. ASSUME NEW k
      PROVE  Cardinality(Sends(q, k)) <=
               Cardinality(Sends(q2, k)) + IF 1 \in Sends(q, k) THEN 1 ELSE 0
  <2> DEFINE S == Sends(q, k) \ {1}
             f == [i \in S |-> i - 1]
  <2>1. S \subseteq Int
    BY <1>1 DEF Sends, Live
  <2>2. \A i \in S : i - 1 \in Sends(q2, k)
    BY <1>4 DEF Sends
  <2>3. f \in Injection(S, Sends(q2, k))
    <3>1. f \in [S -> Sends(q2, k)]
      BY <2>2
    <3>2. \A a, b \in S : f[a] = f[b] => a = b
      BY <2>1
    <3> QED
      BY <3>1, <3>2 DEF Injection, IsInjective
  <2>4. IsFiniteSet(Sends(q2, k)) /\ Cardinality(Sends(q2, k)) \in Nat
    BY <1>1, <1>2, LiveFinite
  <2>5. Cardinality(S) <= Cardinality(Sends(q2, k))
    <3> HIDE DEF S, f
    <3> QED
      BY <2>3, <2>4, FS_Injection
  <2>6. Cardinality(S) = IF 1 \in Sends(q, k) THEN Cardinality(Sends(q, k)) - 1
                         ELSE Cardinality(Sends(q, k))
    BY LiveFinite, FS_RemoveElement
  <2>7. Cardinality(Sends(q, k)) \in Nat
    BY LiveFinite
  <2> HIDE DEF S
  <2> QED
    BY <2>4, <2>5, <2>6, <2>7
<1> QED
  BY <1>2, <1>3, <1>5

LEMMA NoneSent ==
  \A k : Live(<<>>) = {} /\ Sends(<<>>, k) = {} /\ Cardinality(Sends(<<>>, k)) = 0
<1>1. Live(<<>>) = {}
  BY DEF Live
<1> QED
  BY <1>1, FS_EmptySet DEF Sends

\* A reply makes an end of those before it.
LEMMA NoneLive ==
  ASSUME NEW q \in Seq(ToClient), NEW m \in ToClient, m.type \in Reply
  PROVE  Live(Append(q, m)) = {}
<1>1. /\ DOMAIN q = 1 .. Len(q) /\ Len(q) \in Nat
      /\ DOMAIN Append(q, m) = 1 .. Len(q) + 1
      /\ Append(q, m)[Len(q) + 1] = m
  BY Appended
<1>2. PICK q2 : q2 = Append(q, m)
  OBVIOUS
<1>3. \A i \in DOMAIN q2 : Len(q) + 1 >= i /\ Len(q) + 1 \in DOMAIN q2
  BY <1>1, <1>2
<1> QED
  BY <1>1, <1>2, <1>3 DEF Live

-----------------------------------------------------------------------------
(* Covered and InTurn, as frames come and go.                              *)

LEMMA StillCovered ==
  ASSUME NEW q \in Seq(ToClient), NEW r \in Nat, NEW r2 \in Nat, r <= r2,
         NEW o \in Nat, NEW o2 \in Nat, o2 <= o,
         NEW t \in [Nat -> Nat], NEW t2 \in [Nat -> Nat],
         \A k \in Nat : r2 <= k /\ k < o2 => t2[k] <= t[k],
         NEW x \in Nat, NEW x2 \in Nat, x <= x2, Covered(q, r, o, t, x)
  PROVE  Covered(q, r2, o2, t2, x2)
<1> SUFFICES ASSUME NEW k \in Nat, r2 <= k, k < o2
             PROVE  t2[k] <= Cardinality(Sends(q, k)) + x2
  BY DEF Covered
<1>1. t[k] <= Cardinality(Sends(q, k)) + x
  BY DEF Covered
<1>2. Cardinality(Sends(q, k)) \in Nat
  BY LiveFinite
<1>3. PICK a \in Nat, b \in Nat, c \in Nat : a = t[k] /\ b = t2[k] /\ c = Cardinality(Sends(q, k))
  BY <1>2
<1>4. b <= a /\ a <= c + x
  BY <1>1, <1>3
<1>5. b <= c + x2
  BY <1>4
<1> QED
  BY <1>3, <1>5

\* A frame is lost, or dropped.
LEMMA CoveredLost ==
  ASSUME NEW q \in Seq(ToClient), q # <<>>, NEW r \in Nat, NEW o \in Nat,
         NEW t \in [Nat -> Nat], NEW x \in Nat, Covered(q, r, o, t, x)
  PROVE  Covered(Tail(q), r, o, t, x + 1)
<1> SUFFICES ASSUME NEW k \in Nat, r <= k, k < o
             PROVE  t[k] <= Cardinality(Sends(Tail(q), k)) + (x + 1)
  BY DEF Covered
<1>1. t[k] <= Cardinality(Sends(q, k)) + x /\ t[k] \in Nat
  BY DEF Covered
<1>2. Cardinality(Sends(q, k)) <= Cardinality(Sends(Tail(q), k))
                                    + IF 1 \in Sends(q, k) THEN 1 ELSE 0
  BY SendsLess
<1>3. Cardinality(Sends(q, k)) \in Nat /\ Cardinality(Sends(Tail(q), k)) \in Nat
  BY LiveFinite, Shifted
<1>4. PICK a \in Nat, c \in Nat, d \in Nat :
        a = t[k] /\ c = Cardinality(Sends(q, k)) /\ d = Cardinality(Sends(Tail(q), k))
  BY <1>1, <1>3
<1>5. a <= c + x /\ c <= d + 1
  BY <1>1, <1>2, <1>4
<1>6. a <= d + (x + 1)
  BY <1>5
<1> QED
  BY <1>4, <1>6

\* A frame is read that the client does not wait for.
LEMMA CoveredRead ==
  ASSUME NEW q \in Seq(ToClient), q # <<>>, NEW r \in Nat, NEW r2 \in Nat, r <= r2,
         NEW o \in Nat, NEW t \in [Nat -> Nat], NEW x \in Nat, Covered(q, r, o, t, x),
         1 \in Live(q) => q[1].seq < r2
  PROVE  Covered(Tail(q), r2, o, t, x)
<1> SUFFICES ASSUME NEW k \in Nat, r2 <= k, k < o
             PROVE  t[k] <= Cardinality(Sends(Tail(q), k)) + x
  BY DEF Covered
<1>1. t[k] <= Cardinality(Sends(q, k)) + x /\ t[k] \in Nat
  BY DEF Covered
<1>2. 1 \notin Sends(q, k)
  <2> SUFFICES ASSUME 1 \in Sends(q, k)
               PROVE  FALSE
    OBVIOUS
  <2>1. q[1].seq = k /\ q[1].seq < r2
    BY DEF Sends
  <2> QED
    BY <2>1
<1>3. Cardinality(Sends(q, k)) <= Cardinality(Sends(Tail(q), k)) + 0
  BY <1>2, SendsLess
<1>4. Cardinality(Sends(q, k)) \in Nat /\ Cardinality(Sends(Tail(q), k)) \in Nat
  BY LiveFinite, Shifted
<1> QED
  <2>1. PICK a \in Nat, b \in Nat : /\ a = Cardinality(Sends(q, k))
                                   /\ b = Cardinality(Sends(Tail(q), k))
    BY <1>4
  <2>2. t[k] <= a + x /\ a <= b
    BY <1>1, <1>3, <2>1
  <2>3. t[k] <= b + x
    BY <1>1, <2>2
  <2> QED
    BY <2>1, <2>3

\* The server sends once more.
LEMMA CoveredSent ==
  ASSUME NEW q \in Seq(ToClient), NEW m \in ToClient, IsOutput(m), m.seq \in Nat,
         NEW r \in Nat, NEW o \in Nat, NEW o2 \in Nat, o2 <= m.seq + 1,
         NEW t \in [Nat -> Nat], NEW t2 \in [Nat -> Nat],
         \A k \in Nat : k < o2 /\ k # m.seq => k < o /\ t2[k] <= t[k],
         IF m.seq < o THEN t2[m.seq] <= t[m.seq] + 1 ELSE t2[m.seq] = 1,
         NEW x \in Nat, Covered(q, r, o, t, x)
  PROVE  Covered(Append(q, m), r, o2, t2, x)
<1> SUFFICES ASSUME NEW k \in Nat, r <= k, k < o2
             PROVE  t2[k] <= Cardinality(Sends(Append(q, m), k)) + x
  BY DEF Covered
<1>1. Cardinality(Sends(Append(q, m), k)) = Cardinality(Sends(q, k))
                                              + IF k = m.seq THEN 1 ELSE 0
  <2>1. \A j : Cardinality(Sends(Append(q, m), j))
                 = Cardinality(Sends(q, j)) + IF j = m.seq THEN 1 ELSE 0
    BY SendsMore, Zenon
  <2> QED
    BY <2>1, Zenon
<1>2. k < o => t[k] <= Cardinality(Sends(q, k)) + x
  BY DEF Covered
<1>3. Cardinality(Sends(q, k)) \in Nat
  BY LiveFinite
<1>4. PICK a \in Nat, b \in Nat, c \in Nat : a = t[k] /\ b = t2[k] /\ c = Cardinality(Sends(q, k))
  BY <1>3
<1>5. CASE k = m.seq
  <2>1. Cardinality(Sends(Append(q, m), k)) = c + 1 /\ (k < o => a <= c + x)
    BY <1>1, <1>2, <1>4, <1>5
  <2>2. IF k < o THEN b <= a + 1 ELSE b = 1
    BY <1>4, <1>5
  <2>3. b <= c + 1 + x
    BY <2>1, <2>2
  <2> QED
    BY <1>4, <2>1, <2>3
<1>6. CASE k # m.seq
  <2>1. Cardinality(Sends(Append(q, m), k)) = c + 0
    BY <1>1, <1>4, <1>6
  <2>2. b <= a /\ a <= c + x
    BY <1>2, <1>4, <1>6
  <2>3. b <= c + x
    BY <2>2
  <2> QED
    BY <1>4, <2>1, <2>3
<1> QED
  BY <1>5, <1>6

LEMMA InTurnSent ==
  ASSUME NEW q \in Seq(ToClient), NEW m \in ToClient, IsOutput(m), m.seq \in Nat,
         NEW o \in Nat, o <= m.seq + 1, InTurn(q, o)
  PROVE  InTurn(Append(q, m), m.seq + 1)
<1>1. /\ Live(Append(q, m)) = Live(q) \cup {Len(q) + 1}
      /\ \A i \in Live(q) : Append(q, m)[i] = q[i]
      /\ Append(q, m)[Len(q) + 1] = m
      /\ Live(q) \subseteq 1 .. Len(q) /\ Len(q) \in Nat
  BY SendsMore, LiveFinite, Appended
<1>2. PICK q2 : q2 = Append(q, m)
  OBVIOUS
<1>3. \A i \in Live(q) : q[i].seq \in Int /\ q[i].seq < o
  BY ClientFrame DEF InTurn, Live
<1>4. \A i \in Live(q2) : q2[i].seq < m.seq + 1
  BY <1>1, <1>2, <1>3
<1>5. ASSUME NEW i \in Live(q2), NEW j \in Live(q2), i < j
      PROVE  q2[i].seq <= q2[j].seq
  <2>1. i \in Live(q) /\ q2[i] = q[i]
    BY <1>1, <1>2, <1>5
  <2>2. CASE j \in Live(q)
    BY <1>1, <1>2, <1>5, <2>1, <2>2 DEF InTurn
  <2>3. CASE j = Len(q) + 1
    BY <1>1, <1>2, <1>3, <2>1, <2>3
  <2> QED
    BY <1>1, <1>2, <2>2, <2>3
<1> QED
  BY <1>2, <1>4, <1>5 DEF InTurn

LEMMA InTurnLess ==
  ASSUME NEW q \in Seq(ToClient), q # <<>>, NEW o, InTurn(q, o)
  PROVE  InTurn(Tail(q), o)
<1>1. PICK q2 : q2 = Tail(q)
  OBVIOUS
<1>2. \A i \in Live(q2) : i + 1 \in Live(q) /\ q2[i] = q[i + 1]
  BY <1>1, SendsLess
<1>3. Live(q2) \subseteq Int
  <2>1. q2 \in Seq(ToClient)
    BY <1>1, Shifted
  <2> QED
    BY <2>1, LiveFinite
<1>4. \A i, j \in Live(q2) : i < j => i + 1 < j + 1
  BY <1>3
<1> QED
  BY <1>1, <1>2, <1>4 DEF InTurn

-----------------------------------------------------------------------------
(* The state of a shell.                                                   *)

IsStart(m) == m.type = "start_shell_msg"

\* The server has sent the numbers below Over, each Times[k] times.
Number == IF Waiting THEN server.seq ELSE NextNumber
Over == IF Waiting THEN server.seq + 1 ELSE NextNumber
Times == [k \in Nat |-> IF Waiting /\ k = server.seq THEN server.tries + 1 ELSE Tries]

\* The client was told that the server counts anew, or is about to be.
Hearing == client.pc = "shell" \/ Answers(toClient) # {}
NumbersSent ==
  trouble < Tries /\ Hearing => Covered(toClient, client.recv, Over, Times, trouble)
OutputsInTurn == InTurn(toClient, Over)

\* An answer to a start is the only answer there is, and what the client has
\* acknowledged it has printed.
AnswersStart == \A i \in Answers(toClient) : IsFor(toClient[i], 1)
OfShell(m, r) == /\ m.type \in Reply => m.seq < r
                 /\ m.type \notin {"put_name_msg", "transfer_cont_msg", "transfer_end_msg"}
FramesOfShell == \A i \in DOMAIN toServer : OfShell(toServer[i], client.recv)

\* Each start the client has sent in vain took a mishap.
StartComes == Answers(toClient) # {} \/ \E i \in DOMAIN toServer : IsStart(toServer[i])
Started ==
  /\ client.seq = 1 /\ client.recv >= 1
  /\ client.pc = "start" => client.tries <= trouble
  /\ client.pc = "answer" => \/ client.tries < trouble
                             \/ client.tries = trouble /\ StartComes
HearInv ==
  /\ Waiting => server.state = "shell"
  /\ Working.mode = "shell" =>
       NumbersSent /\ OutputsInTurn /\ AnswersStart /\ FramesOfShell /\ Started

LEMMA CountTypes ==
  ASSUME Types
  PROVE  /\ server.seq \in Nat /\ server.tries \in Nat /\ Waiting \in BOOLEAN
         /\ Number \in Nat /\ Over \in Nat /\ Times \in [Nat -> Nat] /\ Tries \in Nat \ {0}
         /\ client.recv \in Nat /\ client.tries \in Nat /\ client.seq \in Nat
         /\ client \in ClientState /\ server \in ServerState
         /\ trouble \in Nat /\ toClient \in Seq(ToClient) /\ toServer \in Seq(ToServer)
<1>1. /\ server \in ServerState /\ client \in ClientState /\ trouble \in Nat
      /\ toClient \in Seq(ToClient) /\ toServer \in Seq(ToServer)
  BY DEF Types, ServerTypes, ClientTypes, Counts, FrameTypes
<1>2. Tries \in Nat \ {0}
  BY ConstAssumption DEF ConstAssumption
<1>3. server.seq \in Nat /\ server.tries \in Nat
  BY <1>1 DEF ServerState
<1>4. NextNumber \in Nat
  BY <1>3 DEF NextNumber
<1>5. Times \in [Nat -> Nat]
  BY <1>2, <1>3 DEF Times
<1>6. Number \in Nat /\ Over \in Nat /\ Waiting \in BOOLEAN
  BY <1>3, <1>4 DEF Number, Over, Waiting
<1>7. client.recv \in Nat /\ client.tries \in Nat /\ client.seq \in Nat
  BY <1>1 DEF ClientState
<1> QED
  BY <1>1, <1>2, <1>3, <1>5, <1>6, <1>7

\* What the steps do to the server's count.
Counting(n) == server'.pc = server.pc /\ server'.state = server.state /\ server'.seq = n
LEMMA OtherCounts ==
  ASSUME Types, ProcessOther,
         Head(toServer).type \notin {"put_name_msg", "transfer_end_msg"}
  PROVE  ~ Waiting /\ Counting(IF IsStart(Head(toServer)) THEN 1 ELSE server.seq)
<1> DEFINE m == Head(toServer)
<1>1. PICK sv : sv = [server EXCEPT !.known = TRUE]
  OBVIOUS
<1>2. /\ sv \in ServerState /\ sv.pc = "loop" /\ sv.seq = server.seq
      /\ server.pc = "loop"
  BY <1>1, ServerGoesOn DEF ProcessOther
<1>3. sv.state = server.state
  BY <1>1 DEF Types, ServerTypes, ServerState
<1>4. server' = IF m.type = "start_shell_msg" THEN [sv EXCEPT !.seq = 1] ELSE sv
  BY <1>1 DEF ProcessOther, StartCounting, SeqAnew
<1> HIDE DEF m
<1>5. /\ server'.pc = "loop" /\ server'.state = server.state
      /\ server'.seq = IF m.type = "start_shell_msg" THEN 1 ELSE server.seq
  BY <1>2, <1>3, <1>4 DEF ServerState
<1> QED
  BY <1>2, <1>5 DEF Counting, Waiting, IsStart, m

SendsNumber ==
  /\ server'.pc = "answer" /\ server'.state = "shell" /\ server'.seq = Number
  /\ server'.tries = IF Waiting THEN server.tries + 1 ELSE 0
  /\ Head(server.out) \in Nat
  /\ toClient' = Append(toClient, Msg("shell_response_msg", Number, Head(server.out)))
EndsNumber ==
  /\ Waiting /\ UNCHANGED toClient
  /\ server'.pc = "loop" /\ server'.state = server.state /\ server'.seq = server.seq + 1
  /\ \/ server.tries + 1 >= Tries
     \/ toServer # <<>> /\ Head(toServer).type \in Reply /\ Head(toServer).seq = server.seq
KeepsNumber ==
  Counting(server.seq) /\ server'.tries = server.tries /\ UNCHANGED toClient

LEMMA EndedCounts ==
  ASSUME Types, Waiting, server' = Ended(server)
  PROVE  server'.pc = "loop" /\ server'.state = server.state /\ server'.seq = server.seq + 1
<1>1. server \in ServerState /\ server.out \in Seq(Nat) /\ server.out # <<>>
  BY DEF Types, ServerTypes, ServerState, Waiting
<1>2. PICK o, n : o = Tail(server.out) /\ n = server.seq + 1
  OBVIOUS
<1>3. server' = [server EXCEPT !.pc = "loop", !.out = o, !.seq = n]
  BY <1>2 DEF Ended
<1> QED
  BY <1>1, <1>2, <1>3 DEF ServerState

LEMMA AgainCounts ==
  ASSUME Types, Waiting, server.state = "shell", SendAgain
  PROVE  SendsNumber \/ EndsNumber
<1>1. server \in ServerState /\ server.out \in Seq(Nat) /\ server.out # <<>>
  BY DEF Types, ServerTypes, ServerState, Waiting
<1>0. server.tries \in Nat /\ Tries \in Nat
  BY CountTypes
<1>2. Head(server.out) \in Nat
  BY <1>1, Shifted
<1>3. CASE server.tries + 1 < Tries
  <2>1. PICK t \in Nat : t = server.tries + 1
    BY <1>0
  <2>2. /\ server' = [server EXCEPT !.tries = t]
        /\ toClient' = Append(toClient, Msg("shell_response_msg", server.seq, Head(server.out)))
    BY <1>3, <2>1 DEF SendAgain
  <2>3. /\ server'.pc = server.pc /\ server'.state = server.state /\ server'.seq = server.seq
        /\ server'.tries = t
    BY <1>1, <2>2 DEF ServerState
  <2> QED
    BY <1>2, <2>1, <2>2, <2>3 DEF SendsNumber, Number, Waiting
<1>4. CASE ~ (server.tries + 1 < Tries)
  <2>1. server' = Ended(server) /\ UNCHANGED toClient
    BY <1>4 DEF SendAgain
  <2>2. server.tries + 1 >= Tries
    BY <1>0, <1>4
  <2> QED
    BY <2>1, <2>2, EndedCounts DEF EndsNumber
<1> QED
  BY <1>3, <1>4

LEMMA OutputCounts ==
  ASSUME Types, Waiting => server.state = "shell",
         ForwardOutput \/ ReadAcknowledgement \/ NoAcknowledgement \/ NoAcknowledgementYet
  PROVE  SendsNumber \/ EndsNumber \/ KeepsNumber
<1>1. server \in ServerState /\ server.out \in Seq(Nat)
  BY DEF Types, ServerTypes, ServerState
<1>2. CASE ForwardOutput
  <2>1. server.pc = "loop" /\ server.out # <<>> /\ ~ Waiting
    BY <1>2 DEF ForwardOutput, Waiting
  <2>2. Head(server.out) \in Nat
    BY <1>1, <2>1, Shifted
  <2>3. CASE ~ server.known
    <3>1. PICK o : o = Tail(server.out)
      OBVIOUS
    <3>2. server' = [server EXCEPT !.out = o] /\ UNCHANGED toClient
      BY <1>2, <2>3, <3>1 DEF ForwardOutput
    <3> QED
      BY <1>1, <3>2 DEF KeepsNumber, Counting, ServerState
  <2>4. CASE server.known
    <3>1. PICK n \in Nat : n = NextNumber
      BY <1>1 DEF NextNumber, ServerState
    <3>2. /\ server' = [server EXCEPT !.pc = "answer", !.state = "shell", !.seq = n, !.tries = 0]
          /\ toClient' = Append(toClient, Msg("shell_response_msg", n, Head(server.out)))
      BY <1>2, <2>4, <3>1 DEF ForwardOutput, NextNumber
    <3>3. /\ server'.pc = "answer" /\ server'.state = "shell" /\ server'.seq = n
          /\ server'.tries = 0
      BY <1>1, <3>2 DEF ServerState
    <3> QED
      BY <2>1, <2>2, <3>1, <3>2, <3>3 DEF SendsNumber, Number
  <2> QED
    BY <2>3, <2>4
<1>3. CASE ReadAcknowledgement
  <2>1. Waiting /\ toServer # <<>>
    BY <1>3 DEF ReadAcknowledgement, Waiting
  <2>2. \/ UNCHANGED <<server, toClient>>
        \/ server' = Ended(server) /\ UNCHANGED toClient /\ Head(toServer).type \in Reply
           /\ IsFor(Head(toServer), server.seq)
        \/ SendAgain
    BY <1>3 DEF ReadAcknowledgement
  <2>3. CASE UNCHANGED <<server, toClient>>
    BY <2>3 DEF KeepsNumber, Counting
  <2>4. CASE server' = Ended(server) /\ UNCHANGED toClient /\ Head(toServer).type \in Reply
             /\ IsFor(Head(toServer), server.seq)
    BY <2>1, <2>4, EndedCounts DEF EndsNumber, IsFor
  <2> QED
    BY <2>1, <2>2, <2>3, <2>4, AgainCounts
<1>4. CASE NoAcknowledgement \/ NoAcknowledgementYet
  BY <1>4, AgainCounts DEF NoAcknowledgement, NoAcknowledgementYet, Waiting
<1> QED
  BY <1>2, <1>3, <1>4

LEMMA SameCounts ==
  ASSUME Counting(server.seq), server'.tries = server.tries \/ ~ Waiting
  PROVE  Over' = Over /\ Times' = Times /\ Waiting' = Waiting
BY DEF Counting, Over, Times, Waiting, NextNumber

LEMMA SentCounts ==
  ASSUME Types, SendsNumber
  PROVE  /\ Over' = Number + 1 /\ Over <= Number + 1 /\ Number <= Over
         /\ \A k \in Nat : k < Over' /\ k # Number => k < Over /\ Times'[k] <= Times[k]
         /\ IF Number < Over THEN Times'[Number] <= Times[Number] + 1 ELSE Times'[Number] = 1
<1>1. Waiting' /\ server'.seq = Number
  BY DEF SendsNumber, Waiting
<1>2. Number \in Nat /\ server.tries \in Nat /\ Tries \in Nat
  BY CountTypes
<1>3. Over' = Number + 1
  BY <1>1 DEF Over
<1>4. Over = IF Waiting THEN Number + 1 ELSE Number
  BY DEF Over, Number
<1>5. /\ \A k \in Nat : k # Number => Times'[k] = Tries /\ Times[k] = Tries
      /\ Times'[Number] = server'.tries + 1
      /\ Waiting => Times[Number] = server.tries + 1
  BY <1>1, <1>2 DEF Times, Number
<1>6. server'.tries = IF Waiting THEN server.tries + 1 ELSE 0
  BY DEF SendsNumber
<1> QED
  BY <1>2, <1>3, <1>4, <1>5, <1>6

LEMMA EndCounts ==
  ASSUME Types, EndsNumber, server.state = "shell"
  PROVE  /\ Over' = Over /\ ~ Waiting'
         /\ \A k \in Nat : k # server.seq \/ server.tries + 1 >= Tries => Times'[k] <= Times[k]
<1>1. Waiting /\ ~ Waiting' /\ server'.seq = server.seq + 1 /\ server'.state = "shell"
  BY DEF EndsNumber, Waiting
<1>2. Over' = Over
  BY <1>1 DEF Over, NextNumber
<1>3. server.tries \in Nat /\ Tries \in Nat
  BY CountTypes
<1>4. \A k \in Nat : /\ Times'[k] = Tries
                     /\ Times[k] = IF k = server.seq THEN server.tries + 1 ELSE Tries
  BY <1>1 DEF Times
<1> QED
  BY <1>1, <1>2, <1>3, <1>4

-----------------------------------------------------------------------------
(* Every step of a shell keeps what a shell that hears needs.              *)

LEMMA AnswersLess ==
  ASSUME NEW q \in Seq(ToClient), q # <<>>
  PROVE  /\ \A i \in Answers(Tail(q)) : i + 1 \in Answers(q) /\ Tail(q)[i] = q[i + 1]
         /\ Head(q) = q[1] /\ (Head(q).type \in Reply => 1 \in Answers(q))
         /\ Head(q).type \notin Reply /\ Answers(q) # {} => Answers(Tail(q)) # {}
<1>1. /\ DOMAIN q = 1 .. Len(q) /\ Len(q) \in Nat \ {0} /\ Head(q) = q[1]
      /\ DOMAIN Tail(q) = 1 .. Len(q) - 1
      /\ \A i \in 1 .. Len(q) - 1 : Tail(q)[i] = q[i + 1]
  BY Shifted
<1>2. PICK q2 : q2 = Tail(q)
  OBVIOUS
<1>3. \A i \in Answers(q2) : i + 1 \in Answers(q) /\ q2[i] = q[i + 1]
  BY <1>1, <1>2 DEF Answers
<1>4. ASSUME Head(q).type \notin Reply, NEW i \in Answers(q)
      PROVE  i - 1 \in Answers(q2)
  <2>1. i \in 2 .. Len(q) /\ i - 1 \in 1 .. Len(q) - 1 /\ i - 1 + 1 = i
    BY <1>1, <1>4 DEF Answers
  <2>2. q2[i - 1] = q[i]
    BY <1>1, <1>2, <2>1
  <2> QED
    BY <1>1, <1>2, <1>4, <2>1, <2>2 DEF Answers
<1>5. Head(q).type \in Reply => 1 \in Answers(q)
  BY <1>1 DEF Answers
<1> QED
  BY <1>1, <1>2, <1>3, <1>4, <1>5

LEMMA AnswersMore ==
  ASSUME NEW q \in Seq(ToClient), NEW m \in ToClient
  PROVE  /\ \A i \in Answers(Append(q, m)) :
              \/ i \in Answers(q) /\ Append(q, m)[i] = q[i]
              \/ Append(q, m)[i] = m /\ m.type \in Reply
         /\ m.type \in Reply \/ Answers(q) # {} => Answers(Append(q, m)) # {}
<1>1. /\ DOMAIN q = 1 .. Len(q) /\ Len(q) \in Nat
      /\ DOMAIN Append(q, m) = 1 .. Len(q) + 1
      /\ Append(q, m)[Len(q) + 1] = m
      /\ \A i \in 1 .. Len(q) : Append(q, m)[i] = q[i]
  BY Appended
<1>2. PICK q2 : q2 = Append(q, m)
  OBVIOUS
<1>3. \A i \in Answers(q2) : \/ i \in Answers(q) /\ q2[i] = q[i]
                             \/ q2[i] = m /\ m.type \in Reply
  BY <1>1, <1>2 DEF Answers
<1>4. m.type \in Reply => Len(q) + 1 \in Answers(q2)
  BY <1>1, <1>2 DEF Answers
<1>5. \A i \in Answers(q) : i \in Answers(q2)
  BY <1>1, <1>2 DEF Answers
<1> QED
  BY <1>2, <1>3, <1>4, <1>5

LEMMA StartsLess ==
  ASSUME NEW q \in Seq(ToServer), q # <<>>
  PROVE  /\ \A i \in DOMAIN Tail(q) : i + 1 \in DOMAIN q /\ Tail(q)[i] = q[i + 1]
         /\ 1 \in DOMAIN q /\ Head(q) = q[1]
         /\ (\E i \in DOMAIN q : IsStart(q[i])) /\ ~ IsStart(Head(q)) =>
              \E i \in DOMAIN Tail(q) : IsStart(Tail(q)[i])
<1>1. /\ DOMAIN q = 1 .. Len(q) /\ Len(q) \in Nat \ {0} /\ Head(q) = q[1]
      /\ DOMAIN Tail(q) = 1 .. Len(q) - 1
      /\ \A i \in 1 .. Len(q) - 1 : Tail(q)[i] = q[i + 1]
  BY Shifted
<1>2. ASSUME NEW i \in DOMAIN q, IsStart(q[i]), ~ IsStart(Head(q))
      PROVE  \E j \in DOMAIN Tail(q) : IsStart(Tail(q)[j])
  <2>1. i \in 2 .. Len(q)
    BY <1>1, <1>2
  <2>2. i - 1 \in 1 .. Len(q) - 1 /\ i - 1 + 1 = i
    BY <1>1, <2>1
  <2>3. Tail(q)[i - 1] = q[i]
    BY <1>1, <2>2
  <2> QED
    BY <1>1, <1>2, <2>2, <2>3
<1> QED
  BY <1>1, <1>2

LEMMA StartsMore ==
  ASSUME NEW q \in Seq(ToServer), NEW m \in ToServer
  PROVE  /\ \A i \in DOMAIN q : i \in DOMAIN Append(q, m) /\ Append(q, m)[i] = q[i]
         /\ \A i \in DOMAIN Append(q, m) :
              \/ i \in DOMAIN q /\ Append(q, m)[i] = q[i]
              \/ Append(q, m)[i] = m
         /\ \E i \in DOMAIN Append(q, m) : Append(q, m)[i] = m
BY Appended

\* The client waits for an answer, and starts its shell again without one.
LEMMA ShellClient ==
  ASSUME Types, Working.mode = "shell"
  PROVE  /\ Answered(client).pc = "shell" /\ Answered(client).recv = client.recv
         /\ Answered(client).seq = client.seq
         /\ Failed(client).recv = client.recv /\ Failed(client).seq = client.seq
         /\ IF client.tries + 1 < Tries
            THEN Failed(client).pc = "start" /\ Failed(client).tries = client.tries + 1
            ELSE Failed(client).pc = "shell"
<1>1. client \in ClientState
  BY CountTypes
<1>2. PICK t : t = client.tries + 1
  OBVIOUS
<1>3. Again(client) = [client EXCEPT !.pc = "start", !.tries = t]
  BY <1>2 DEF Again
<1>4. /\ Again(client).pc = "start" /\ Again(client).recv = client.recv
      /\ Again(client).seq = client.seq /\ Again(client).tries = t
  BY <1>1, <1>3 DEF ClientState
<1>5. PICK c : c = [client EXCEPT !.pc = "shell"]
  OBVIOUS
<1>6. c.pc = "shell" /\ c.recv = client.recv /\ c.seq = client.seq
  BY <1>1, <1>5 DEF ClientState
<1>7. Answered(client) = c /\ GiveUp(client) = c
  BY <1>5 DEF Answered, GiveUp
<1>8. Failed(client) = IF client.tries + 1 < Tries THEN Again(client) ELSE c
  BY <1>7 DEF Failed, UpToTries
<1> QED
  BY <1>2, <1>4, <1>6, <1>7, <1>8

\* A step of a shell is none of a file.
LEMMA ShellSteps ==
  ASSUME Types, Working.mode = "shell", HearInv, Next, ~ NextClient
  PROVE  /\ Working' = Working
         /\ client.pc \in {"start", "answer", "shell"}
         /\ \/ StartShell \/ ReadAnswer \/ NoAnswer \/ NoAnswerYet \/ ReadOutput \/ Type
            \/ ProcessOther /\ ~ Waiting
               /\ Head(toServer).type \notin {"put_name_msg", "transfer_end_msg"}
            \/ ForwardOutput \/ ReadAcknowledgement \/ NoAcknowledgement
            \/ NoAcknowledgementYet \/ ShellWrites \/ Lose
<1>1. client.pc \in {"start", "answer", "shell"}
  BY DEF Types, ClientTypes, Steps
<1>2. \A i \in DOMAIN toServer : OfShell(toServer[i], client.recv)
  BY DEF HearInv, FramesOfShell
<1>3. toServer # <<>> => OfShell(Head(toServer), client.recv)
  BY <1>2, StartsLess, CountTypes
<1>4. ~ PutFile /\ ~ SendChunk /\ ~ ContinueReceivingFile /\ ~ DiskFull
  BY <1>1, <1>3 DEF PutFile, SendChunk, ContinueReceivingFile, DiskFull, OfShell
<1>5. ProcessOther => /\ ~ Waiting
                      /\ Head(toServer).type \notin {"put_name_msg", "transfer_end_msg"}
  BY <1>3 DEF ProcessOther, OfShell, Waiting
<1>6. Working' = Working
  <2>1. UNCHANGED <<scenario, session>>
    BY DEF Next, ClientStep, ServerStep, Timeout, PutFile, SendChunk, StartShell, ReadAnswer,
       NoAnswer, ReadOutput, ProcessOther, ContinueReceivingFile, ForwardOutput,
       ReadAcknowledgement, NoAcknowledgement, NoAnswerYet, NoAcknowledgementYet, Type,
       DiskFull, ShellWrites, Lose
  <2> QED
    BY <2>1 DEF Working
<1> QED
  BY <1>1, <1>4, <1>5, <1>6 DEF Next, ClientStep, ServerStep, Timeout

\* What the client prints, of what is first in the queue.
LEMMA PrintingClient ==
  ASSUME Types, Working.mode = "shell", ReadOutput
  PROVE  /\ toClient # <<>> /\ toClient' = Tail(toClient) /\ UNCHANGED <<server, trouble>>
         /\ client.pc = "shell" /\ client'.pc = "shell" /\ client'.seq = client.seq
         /\ \/ client' = client /\ toServer' = toServer
               /\ (IsOutput(Head(toClient)) => Head(toClient).seq # client.recv)
            \/ /\ client'.recv = client.recv + 1
               /\ IsOutput(Head(toClient)) => Head(toClient).seq = client.recv
               /\ Msg("recv_ok_msg", client.recv, Head(toClient).data) \in ToServer
               /\ toServer' = Append(toServer, Msg("recv_ok_msg", client.recv,
                                                   Head(toClient).data))
<1> DEFINE m == Head(toClient)
           n == FirstWord(m)
<1>1. IsOutput(m) => n = m.seq
  BY DEF FirstWord, IsOutput
<1>2. PICK r : r = client.recv + 1
  OBVIOUS
<1>3. \/ client' = client /\ toServer' = toServer /\ n # client.recv
      \/ /\ client' = [client EXCEPT !.recv = r] /\ n = client.recv
         /\ toServer' = Append(toServer, Msg("recv_ok_msg", n, m.data))
  BY <1>2 DEF ReadOutput, Prints, Expected
<1>4. /\ toClient # <<>> /\ toClient' = Tail(toClient) /\ UNCHANGED <<server, trouble>>
      /\ client.pc = "shell"
  BY DEF ReadOutput
<1>5. client \in ClientState /\ client.recv \in Nat
  BY CountTypes
<1>6. m.data \in Nat
  <2>1. toClient \in Seq(ToClient)
    BY CountTypes
  <2>2. m \in ToClient
    BY <1>4, <2>1, Shifted
  <2> QED
    BY <2>2 DEF ToClient
<1> HIDE DEF m, n
<1>7. CASE client' = client /\ toServer' = toServer /\ n # client.recv
  BY <1>1, <1>4, <1>7 DEF m
<1>8. CASE /\ client' = [client EXCEPT !.recv = r] /\ n = client.recv
           /\ toServer' = Append(toServer, Msg("recv_ok_msg", n, m.data))
  <2>1. client'.recv = r /\ client'.pc = "shell" /\ client'.seq = client.seq
    BY <1>4, <1>5, <1>8 DEF ClientState
  <2>2. Msg("recv_ok_msg", client.recv, m.data) \in ToServer
    BY <1>5, <1>6 DEF Msg, ToServer, MsgType, Reply, Data
  <2> QED
    BY <1>1, <1>2, <1>4, <1>8, <2>1, <2>2 DEF m
<1> QED
  BY <1>3, <1>7, <1>8

LEMMA FramesHeard ==
  ASSUME Types, Types', HearInv, Working.mode = "shell", Next, ~ NextClient
  PROVE  AnswersStart' /\ FramesOfShell'
<1>0. AnswersStart /\ FramesOfShell /\ Started
  BY DEF HearInv
<1>1. /\ toClient \in Seq(ToClient) /\ toServer \in Seq(ToServer) /\ client.recv \in Nat
      /\ server.seq \in Nat
  BY CountTypes
<1>2. ASSUME UNCHANGED toClient
      PROVE  AnswersStart'
  BY <1>0, <1>2 DEF AnswersStart
<1>3. ASSUME toClient # <<>>, toClient' = Tail(toClient)
      PROVE  AnswersStart'
  <2>1. \A i \in Answers(toClient') : i + 1 \in Answers(toClient)
                                       /\ toClient'[i] = toClient[i + 1]
    BY <1>1, <1>3, AnswersLess
  <2> QED
    BY <1>0, <2>1 DEF AnswersStart
<1>4. ASSUME NEW m \in ToClient, m.type \in Reply => IsFor(m, 1), toClient' = Append(toClient, m)
      PROVE  AnswersStart'
  <2>1. \A i \in Answers(toClient') :
          \/ i \in Answers(toClient) /\ toClient'[i] = toClient[i]
          \/ toClient'[i] = m /\ m.type \in Reply
    BY <1>1, <1>4, AnswersMore
  <2> QED
    BY <1>0, <1>4, <2>1 DEF AnswersStart
<1>5. ASSUME UNCHANGED toServer, client'.recv = client.recv
      PROVE  FramesOfShell'
  BY <1>0, <1>5 DEF FramesOfShell
<1>6. ASSUME toServer # <<>>, toServer' = Tail(toServer), client'.recv = client.recv
      PROVE  FramesOfShell'
  <2>1. \A i \in DOMAIN toServer' : i + 1 \in DOMAIN toServer /\ toServer'[i] = toServer[i + 1]
    BY <1>1, <1>6, StartsLess
  <2> QED
    BY <1>0, <1>6, <2>1 DEF FramesOfShell
<1>7. ASSUME NEW m \in ToServer, NEW r \in Nat, client'.recv = r, client.recv <= r,
             OfShell(m, r), toServer' = Append(toServer, m)
      PROVE  FramesOfShell'
  <2>1. \A i \in DOMAIN toServer' : \/ i \in DOMAIN toServer /\ toServer'[i] = toServer[i]
                                    \/ toServer'[i] = m
    BY <1>1, <1>7, StartsMore
  <2>2. \A i \in DOMAIN toServer : OfShell(toServer[i], r)
    <3> SUFFICES ASSUME NEW i \in DOMAIN toServer
                 PROVE  OfShell(toServer[i], r)
      OBVIOUS
    <3>1. toServer[i] \in ToServer
      BY <1>1
    <3>2. toServer[i].seq \in Int
      BY <3>1 DEF ToServer
    <3> QED
      BY <1>0, <1>1, <1>7, <3>2 DEF FramesOfShell, OfShell
  <2> QED
    BY <1>7, <2>1, <2>2 DEF FramesOfShell
<1>8. CASE StartShell \/ Type
  <2>1. client'.recv = client.recv /\ UNCHANGED toClient
    <3>1. CASE StartShell
      <4>1. PICK p : client' = [client EXCEPT !.pc = p]
        BY <3>1 DEF StartShell
      <4> QED
        BY <3>1, <4>1, CountTypes DEF StartShell, ClientState
    <3>2. CASE Type
      BY <3>2 DEF Type
    <3> QED
      BY <1>8, <3>1, <3>2
  <2>2. PICK m \in {Msg("start_shell_msg", 1, Junk), Msg("shell_cmd_msg", 0, Junk)} :
          toServer' = Append(toServer, m)
    BY <1>8 DEF StartShell, Type
  <2>3. m \in ToServer /\ OfShell(m, client.recv)
    BY DEF Msg, ToServer, MsgType, Reply, Data, Junk, OfShell
  <2> QED
    BY <1>1, <1>2, <1>7, <2>1, <2>2, <2>3
<1>9. CASE ReadAnswer \/ NoAnswer \/ NoAnswerYet
  <2>1. /\ client' = client \/ client' \in {Failed(client), Answered(client)}
        /\ UNCHANGED toServer
        /\ \/ UNCHANGED toClient
           \/ toClient # <<>> /\ toClient' = Tail(toClient)
    BY <1>9 DEF ReadAnswer, NoAnswer, NoAnswerYet
  <2>2. client'.recv = client.recv
    BY <2>1, ShellClient
  <2> QED
    BY <1>2, <1>3, <1>5, <2>1, <2>2
<1>10. CASE ReadOutput
  <2>1. toClient # <<>> /\ toClient' = Tail(toClient)
    BY <1>10, PrintingClient
  <2>2. PICK m : m = Msg("recv_ok_msg", client.recv, Head(toClient).data)
    OBVIOUS
  <2>3. \/ client' = client /\ toServer' = toServer
        \/ /\ client'.recv = client.recv + 1 /\ m \in ToServer
           /\ toServer' = Append(toServer, m)
    BY <1>10, <2>2, PrintingClient
  <2>4. OfShell(m, client.recv + 1)
    BY <1>1, <2>2 DEF OfShell, Msg
  <2>5. CASE client' = client /\ toServer' = toServer
    BY <1>3, <1>5, <2>1, <2>5
  <2>6. CASE /\ client'.recv = client.recv + 1 /\ m \in ToServer
             /\ toServer' = Append(toServer, m)
    <3>1. PICK r \in Nat : r = client.recv + 1 /\ client.recv <= r
      BY <1>1
    <3>2. FramesOfShell'
      BY <1>7, <2>4, <2>6, <3>1
    <3>3. AnswersStart'
      BY <1>3, <2>1
    <3> QED
      BY <3>2, <3>3
  <2> QED
    BY <2>3, <2>5, <2>6
<1>11. CASE ProcessOther
  <2>1. UNCHANGED client /\ toServer # <<>> /\ toServer' = Tail(toServer)
    BY <1>11 DEF ProcessOther
  <2>2. PICK m : m = Msg("recv_ok_msg", 1, Junk)
    OBVIOUS
  <2>3. m \in ToClient /\ IsFor(m, 1)
    BY <2>2 DEF Msg, ToClient, MsgType, Reply, IsFor, Junk
  <2>4. UNCHANGED toClient \/ toClient' = Append(toClient, m)
    BY <1>11, <2>2 DEF ProcessOther
  <2> QED
    BY <1>2, <1>4, <1>6, <2>1, <2>3, <2>4
<1>12. CASE \/ ForwardOutput \/ ReadAcknowledgement \/ NoAcknowledgement
            \/ NoAcknowledgementYet
  <2>1. /\ UNCHANGED client
        /\ \/ UNCHANGED toServer
           \/ toServer # <<>> /\ toServer' = Tail(toServer)
    BY <1>12 DEF ForwardOutput, ReadAcknowledgement, NoAcknowledgement, NoAcknowledgementYet
  <2>2. SendsNumber \/ UNCHANGED toClient
    BY <1>12, OutputCounts DEF HearInv, EndsNumber, KeepsNumber
  <2>3. ASSUME SendsNumber PROVE AnswersStart'
    <3>1. PICK m : m = Msg("shell_response_msg", Number, Head(server.out))
      OBVIOUS
    <3>2. m \in ToClient /\ m.type \notin Reply
      BY <2>3, <3>1, CountTypes DEF SendsNumber, Msg, ToClient, MsgType, Reply
    <3> QED
      BY <1>4, <2>3, <3>1, <3>2 DEF SendsNumber
  <2> QED
    BY <1>2, <1>5, <1>6, <2>1, <2>2, <2>3
<1>13. CASE ShellWrites
  BY <1>2, <1>5, <1>13 DEF ShellWrites
<1>14. CASE Lose
  BY <1>2, <1>3, <1>5, <1>6, <1>14 DEF Lose
<1> QED
  BY <1>8, <1>9, <1>10, <1>11, <1>12, <1>13, <1>14, ShellSteps

LEMMA StartedNext ==
  ASSUME Types, Types', HearInv, Working.mode = "shell", Next, ~ NextClient
  PROVE  Started'
<1>0. AnswersStart /\ FramesOfShell /\ Started
  BY DEF HearInv
<1>1. /\ toClient \in Seq(ToClient) /\ toServer \in Seq(ToServer) /\ client.recv \in Nat
      /\ client.tries \in Nat /\ trouble \in Nat /\ client \in ClientState
  BY CountTypes
<1>2. ASSUME client' = client, trouble' \in Nat, trouble < trouble'
      PROVE  Started'
  BY <1>0, <1>1, <1>2 DEF Started
<1>3. ASSUME client' = client, trouble' = trouble,
             client.pc = "answer" /\ StartComes => StartComes'
      PROVE  Started'
  BY <1>0, <1>3 DEF Started
<1>4. CASE StartShell
  <2>1. /\ client.pc = "start" /\ client' = [client EXCEPT !.pc = "answer"]
        /\ UNCHANGED <<trouble, toClient>>
        /\ toServer' = Append(toServer, Msg("start_shell_msg", 1, Junk))
    BY <1>4 DEF StartShell
  <2>2. PICK m : m = Msg("start_shell_msg", 1, Junk)
    OBVIOUS
  <2>3. m \in ToServer /\ IsStart(m)
    BY <2>2 DEF Msg, ToServer, MsgType, Reply, Data, Junk, IsStart
  <2>4. \E i \in DOMAIN toServer' : IsStart(toServer'[i])
    <3>1. toServer \in Seq(ToServer) /\ toServer' = Append(toServer, m)
      BY <1>1, <2>1, <2>2
    <3>2. \E i \in DOMAIN Append(toServer, m) : Append(toServer, m)[i] = m
      BY ONLY <2>3, <3>1, StartsMore
    <3> QED
      BY <2>3, <3>1, <3>2
  <2>5. /\ client'.pc = "answer" /\ client'.tries = client.tries /\ client'.seq = client.seq
        /\ client'.recv = client.recv
    BY <1>1, <2>1 DEF ClientState
  <2> QED
    BY <1>0, <1>1, <2>1, <2>4, <2>5 DEF Started, StartComes
<1>5. ASSUME client.pc = "answer", client' = Answered(client)
      PROVE  Started'
  BY <1>0, <1>5, ShellClient DEF Started
<1>6. ASSUME client.pc = "answer", client' = Failed(client), trouble' \in Nat,
             client.tries < trouble'
      PROVE  Started'
  <2>1. client'.recv = client.recv /\ client'.seq = client.seq
    BY <1>6, ShellClient
  <2>2. \/ client'.pc = "start" /\ client'.tries = client.tries + 1
        \/ client'.pc = "shell"
    BY <1>6, ShellClient
  <2> QED
    BY <1>0, <1>1, <1>6, <2>1, <2>2 DEF Started
<1>7. CASE ReadAnswer
  <2>1. /\ client.pc = "answer" /\ toClient # <<>> /\ UNCHANGED <<trouble, toServer>>
        /\ toClient' = Tail(toClient)
        /\ client' = IF Head(toClient).type \notin Reply THEN client
                     ELSE IF IsFor(Head(toClient), client.seq) THEN Answered(client)
                     ELSE Failed(client)
    BY <1>7 DEF ReadAnswer
  <2>2. CASE Head(toClient).type \notin Reply
    <3>1. Answers(toClient) # {} => Answers(toClient') # {}
      BY <1>1, <2>1, <2>2, AnswersLess
    <3> QED
      BY <1>3, <2>1, <2>2, <3>1 DEF StartComes
  <2>3. CASE Head(toClient).type \in Reply
    <3>1. IsFor(Head(toClient), client.seq)
      BY <1>0, <1>1, <2>1, <2>3, AnswersLess DEF AnswersStart, Started
    <3> QED
      BY <1>5, <2>1, <2>3, <3>1
  <2> QED
    BY <2>2, <2>3
<1>8. CASE NoAnswer
  <2>1. /\ client.pc = "answer" /\ client' = Failed(client) /\ trouble' = trouble
        /\ toServer = <<>> /\ toClient = <<>>
    BY <1>8 DEF NoAnswer, NothingComes
  <2>2. ~ StartComes
    BY <2>1 DEF StartComes, Answers
  <2>3. client.tries < trouble
    BY <1>0, <2>1, <2>2 DEF Started
  <2> QED
    BY <1>1, <1>6, <2>1, <2>3
<1>9. CASE NoAnswerYet
  <2>1. client.pc = "answer" /\ client' = Failed(client) /\ trouble' = trouble + 1
    BY <1>9 DEF NoAnswerYet
  <2>2. client.tries < trouble + 1
    BY <1>0, <1>1, <2>1 DEF Started
  <2> QED
    BY <1>1, <1>6, <2>1, <2>2
<1>10. CASE ReadOutput
  <2>1. /\ client'.pc = "shell" /\ client'.seq = client.seq
        /\ client'.recv \in {client.recv, client.recv + 1}
    BY <1>10, PrintingClient
  <2>2. client'.recv >= 1
    BY <1>0, <1>1, <2>1 DEF Started
  <2> QED
    BY <1>0, <2>1, <2>2 DEF Started
<1>11. CASE Type
  BY <1>3, <1>11 DEF Type, Started
<1>12. CASE ProcessOther
  <2>1. /\ UNCHANGED <<client, trouble>> /\ toServer # <<>> /\ toServer' = Tail(toServer)
    BY <1>12 DEF ProcessOther
  <2>2. PICK m : m = Msg("recv_ok_msg", 1, Junk)
    OBVIOUS
  <2>3. m \in ToClient /\ m.type \in Reply
    BY <2>2 DEF Msg, ToClient, MsgType, Reply, Junk
  <2>4. IF IsStart(Head(toServer)) THEN toClient' = Append(toClient, m) ELSE UNCHANGED toClient
    BY <1>12, <2>2 DEF ProcessOther, IsStart
  <2>5. StartComes => StartComes'
    <3>1. CASE IsStart(Head(toServer))
      <4>1. Answers(toClient') # {}
        BY <1>1, <2>3, <2>4, <3>1, AnswersMore
      <4> QED
        BY <4>1 DEF StartComes
    <3>2. CASE ~ IsStart(Head(toServer))
      <4>1. (\E i \in DOMAIN toServer : IsStart(toServer[i]))
              => \E i \in DOMAIN toServer' : IsStart(toServer'[i])
        BY <1>1, <2>1, <3>2, StartsLess
      <4> QED
        BY <2>4, <3>2, <4>1 DEF StartComes
    <3> QED
      BY <3>1, <3>2
  <2> QED
    BY <1>3, <2>1, <2>5
<1>13. ASSUME SendsNumber \/ UNCHANGED toClient
       PROVE  Answers(toClient) # {} => Answers(toClient') # {}
  <2>1. CASE SendsNumber
    <3>1. PICK m : m = Msg("shell_response_msg", Number, Head(server.out))
      OBVIOUS
    <3>2. m \in ToClient
      BY <2>1, <3>1, CountTypes DEF SendsNumber, Msg, ToClient, MsgType, Reply
    <3> QED
      BY <1>1, <2>1, <3>1, <3>2, AnswersMore DEF SendsNumber
  <2> QED
    BY <1>13, <2>1
<1>14. CASE ForwardOutput \/ ReadAcknowledgement \/ NoAcknowledgement \/ NoAcknowledgementYet
  <2>1. /\ UNCHANGED client
        /\ \/ UNCHANGED <<toServer, trouble>>
           \/ trouble' = trouble + 1
           \/ toServer # <<>> /\ toServer' = Tail(toServer) /\ UNCHANGED trouble
              /\ Head(toServer).type \in Reply
    BY <1>14 DEF ForwardOutput, ReadAcknowledgement, NoAcknowledgement, NoAcknowledgementYet
  <2>2. Answers(toClient) # {} => Answers(toClient') # {}
    BY <1>13, <1>14, OutputCounts DEF HearInv, EndsNumber, KeepsNumber
  <2>3. CASE UNCHANGED <<toServer, trouble>>
    BY <1>3, <2>1, <2>2, <2>3 DEF StartComes
  <2>4. CASE trouble' = trouble + 1
    BY <1>1, <1>2, <2>1, <2>4
  <2>5. CASE toServer # <<>> /\ toServer' = Tail(toServer) /\ UNCHANGED trouble
             /\ Head(toServer).type \in Reply
    <3>1. ~ IsStart(Head(toServer))
      BY <2>5 DEF IsStart, Reply
    <3>2. (\E i \in DOMAIN toServer : IsStart(toServer[i]))
            => \E i \in DOMAIN toServer' : IsStart(toServer'[i])
      BY <1>1, <2>5, <3>1, StartsLess
    <3> QED
      BY <1>3, <2>1, <2>2, <2>5, <3>2 DEF StartComes
  <2> QED
    BY <2>1, <2>3, <2>4, <2>5
<1>15. CASE ShellWrites
  BY <1>3, <1>15 DEF ShellWrites, StartComes
<1>16. CASE Lose
  BY <1>1, <1>2, <1>16 DEF Lose
<1> QED
  BY <1>4, <1>7, <1>8, <1>9, <1>10, <1>11, <1>12, <1>14, <1>15, <1>16, ShellSteps

LEMMA CountsOf ==
  ASSUME Types, HearInv, Working.mode = "shell"
  PROVE  /\ toClient \in Seq(ToClient) /\ InTurn(toClient, Over)
         /\ Over \in Nat /\ Over' = Over => Over' \in Nat
         /\ Times \in [Nat -> Nat] /\ client.recv \in Nat /\ trouble \in Nat
BY CountTypes DEF HearInv, OutputsInTurn

LEMMA NumbersOf ==
  ASSUME Types
  PROVE  /\ client.recv \in Nat /\ trouble \in Nat /\ Tries \in Nat \ {0} /\ Over \in Nat
         /\ server.seq \in Nat /\ server.tries \in Nat
BY CountTypes

LEMMA SentFrame ==
  ASSUME Types, SendsNumber
  PROVE  \E m \in ToClient : /\ IsOutput(m) /\ m.seq = Number
                             /\ toClient' = Append(toClient, m)
<1>1. PICK m : m = Msg("shell_response_msg", Number, Head(server.out))
  OBVIOUS
<1>2. m \in ToClient /\ IsOutput(m) /\ m.seq = Number
  BY <1>1, CountTypes DEF SendsNumber, Msg, ToClient, MsgType, Reply, IsOutput
<1> QED
  BY <1>1, <1>2 DEF SendsNumber

\* A number is sent, once more or for the first time.
LEMMA NumberSent ==
  ASSUME Types, Types', HearInv, Working.mode = "shell", SendsNumber, UNCHANGED client,
         trouble <= trouble'
  PROVE  NumbersSent' /\ OutputsInTurn'
<1>1. PICK m \in ToClient : /\ IsOutput(m) /\ m.seq = Number
                            /\ toClient' = Append(toClient, m)
  BY SentFrame
<1>2. /\ toClient \in Seq(ToClient) /\ InTurn(toClient, Over) /\ Number \in Nat /\ Over \in Nat
      /\ Times \in [Nat -> Nat] /\ Times' \in [Nat -> Nat] /\ Over' \in Nat
      /\ client.recv \in Nat /\ trouble \in Nat /\ trouble' \in Nat
  <2>1. Times' \in [Nat -> Nat] /\ Over' \in Nat /\ trouble' \in Nat
    <3>1. server.seq' \in Nat /\ server.tries' \in Nat /\ Tries \in Nat /\ trouble' \in Nat
      BY ConstAssumption DEF Types, Counts, ServerTypes, ServerState, ConstAssumption
    <3>2. Waiting'
      BY DEF SendsNumber, Waiting
    <3>3. Over' \in Nat
      BY <3>1, <3>2 DEF Over
    <3>4. Times' \in [Nat -> Nat]
      BY <3>1 DEF Times
    <3> QED
      BY <3>1, <3>3, <3>4
  <2> QED
    BY <2>1, CountsOf, CountTypes
<1>3. OutputsInTurn'
  <2>1. Over' = m.seq + 1 /\ Over <= m.seq + 1
    BY <1>1, SentCounts
  <2>2. InTurn(Append(toClient, m), m.seq + 1)
    BY <1>1, <1>2, <2>1, InTurnSent
  <2> QED
    BY <1>1, <2>1, <2>2 DEF OutputsInTurn
<1>4. ASSUME trouble' < Tries, Hearing'
      PROVE  Covered(toClient', client.recv, Over', Times', trouble')
  <2>1. Hearing /\ trouble < Tries
    <3>1. m.type \notin Reply
      BY <1>1 DEF IsOutput, Reply
    <3>2. Answers(toClient') # {} => Answers(toClient) # {}
      BY <1>1, <1>2, <3>1, AnswersMore
    <3> QED
      <4>1. trouble < Tries
        BY <1>2, <1>4, NumbersOf
      <4> QED
        BY <1>4, <3>2, <4>1 DEF Hearing
  <2>2. Covered(toClient, client.recv, Over, Times, trouble)
    BY <2>1 DEF HearInv, NumbersSent
  <2>3. /\ Over' <= m.seq + 1
        /\ \A k \in Nat : k < Over' /\ k # m.seq => k < Over /\ Times'[k] <= Times[k]
        /\ IF m.seq < Over THEN Times'[m.seq] <= Times[m.seq] + 1 ELSE Times'[m.seq] = 1
    BY <1>1, <1>2, SentCounts
  <2>4. PICK o \in Nat, t \in [Nat -> Nat] : o = Over' /\ t = Times'
    BY <1>2
  <2>5. Covered(Append(toClient, m), client.recv, o, t, trouble)
    <3>1. /\ o <= m.seq + 1
          /\ \A k \in Nat : k < o /\ k # m.seq => k < Over /\ t[k] <= Times[k]
          /\ IF m.seq < Over THEN t[m.seq] <= Times[m.seq] + 1 ELSE t[m.seq] = 1
      BY <2>3, <2>4
    <3>2. m.seq \in Nat
      BY <1>1, <1>2
    <3> QED
      BY <1>1, <1>2, <2>2, <3>1, <3>2, CoveredSent
  <2>6. toClient' \in Seq(ToClient)
    BY DEF Types, FrameTypes
  <2>7. \A k \in Nat : t[k] <= t[k]
    OBVIOUS
  <2>8. Covered(Append(toClient, m), client.recv, o, t, trouble')
    <3>1. PICK q \in Seq(ToClient) : q = Append(toClient, m)
      BY <1>1, <2>6
    <3>2. PICK x \in Nat : x = trouble'
      BY <1>2
    <3>3. client.recv <= client.recv /\ o <= o /\ trouble <= x
      <4>0. PICK r \in Nat : r = client.recv
        BY NumbersOf
      <4>1. client.recv <= client.recv
        <5>1. r <= r
          OBVIOUS
        <5> QED
          BY <4>0, <5>1
      <4>2. o <= o
        OBVIOUS
      <4> QED
        BY <3>2, <4>1, <4>2
    <3>4. \A k \in Nat : client.recv <= k /\ k < o => t[k] <= t[k]
      BY <2>7
    <3>5. Covered(q, client.recv, o, t, x)
      BY <1>2, <2>5, <3>1, <3>3, <3>4, StillCovered
    <3> QED
      BY <3>1, <3>2, <3>5
  <2> QED
    BY <1>1, <2>4, <2>8
<1> QED
  BY <1>3, <1>4 DEF NumbersSent

\* It is the last time, or the client has printed it.
LEMMA NumberEnded ==
  ASSUME Types, Types', HearInv, Working.mode = "shell", EndsNumber, UNCHANGED client,
         trouble <= trouble'
  PROVE  NumbersSent' /\ OutputsInTurn'
<1>1. Waiting /\ server.state = "shell" /\ FramesOfShell
  BY DEF HearInv, EndsNumber
<1>2. /\ Over' = Over
      /\ \A k \in Nat : k # server.seq \/ server.tries + 1 >= Tries => Times'[k] <= Times[k]
  BY <1>1, EndCounts
<1>3. /\ toClient \in Seq(ToClient) /\ Over \in Nat /\ Times \in [Nat -> Nat]
      /\ client.recv \in Nat /\ trouble \in Nat /\ Tries \in Nat /\ server.seq \in Nat
  BY CountTypes
<1>4. Times' \in [Nat -> Nat] /\ trouble' \in Nat
  <2>1. server.seq' \in Nat /\ server.tries' \in Nat /\ Tries \in Nat /\ trouble' \in Nat
    BY ConstAssumption DEF Types, Counts, ServerTypes, ServerState, ConstAssumption
  <2> QED
    BY <2>1 DEF Times
<1>5. toClient' = toClient
  BY DEF EndsNumber
<1>6. OutputsInTurn'
  BY <1>2, <1>5 DEF OutputsInTurn, HearInv
<1>7. ASSUME trouble' < Tries, Hearing'
      PROVE  Covered(toClient, client.recv, Over, Times', trouble')
  <2>1. Hearing /\ trouble < Tries
    <3>1. trouble < Tries
      BY <1>4, <1>7, NumbersOf
    <3> QED
      BY <1>5, <1>7, <3>1 DEF Hearing
  <2>2. Covered(toClient, client.recv, Over, Times, trouble)
    BY <2>1 DEF HearInv, NumbersSent
  <2>3. server.tries + 1 >= Tries \/ server.seq < client.recv
    <3>1. toServer # <<>> => OfShell(Head(toServer), client.recv)
      BY <1>1, StartsLess, CountTypes DEF FramesOfShell
    <3> QED
      BY <3>1 DEF EndsNumber, OfShell
  <2>4. \A k \in Nat : client.recv <= k => Times'[k] <= Times[k]
    <3>1. CASE server.tries + 1 >= Tries
      BY <1>2, <3>1
    <3>2. CASE server.seq < client.recv
      <4>1. \A k \in Nat : client.recv <= k => k # server.seq
        BY <3>2, NumbersOf
      <4> QED
        BY <1>2, <4>1
    <3> QED
      BY <2>3, <3>1, <3>2
  <2>5. PICK t \in [Nat -> Nat] : t = Times'
    BY <1>4
  <2>6. Covered(toClient, client.recv, Over, t, trouble')
    <3>1. \A k \in Nat : client.recv <= k /\ k < Over => t[k] <= Times[k]
      BY <2>4, <2>5
    <3>2. PICK x \in Nat : x = trouble'
      BY <1>4
    <3>3. client.recv <= client.recv /\ Over <= Over /\ trouble <= x
      BY <3>2, NumbersOf
    <3>4. Covered(toClient, client.recv, Over, t, x)
      BY <1>3, <2>2, <3>1, <3>3, StillCovered
    <3> QED
      BY <3>2, <3>4
  <2> QED
    BY <2>5, <2>6
<1> QED
  BY <1>2, <1>5, <1>6, <1>7 DEF NumbersSent

\* Nothing is sent, and the client begins to hear only after Tries mishaps.
LEMMA NumbersKept ==
  ASSUME Types, Types', HearInv, Working.mode = "shell", UNCHANGED toClient,
         Over' = Over, Times' = Times, client'.recv = client.recv, trouble <= trouble',
         trouble' < Tries /\ Hearing' => Hearing
  PROVE  NumbersSent' /\ OutputsInTurn'
<1>1. /\ toClient \in Seq(ToClient) /\ Over \in Nat /\ Times \in [Nat -> Nat]
      /\ client.recv \in Nat /\ trouble \in Nat /\ Tries \in Nat
  BY CountTypes
<1>2. trouble' \in Nat
  BY DEF Types, Counts
<1>3. OutputsInTurn'
  BY DEF OutputsInTurn, HearInv
<1>4. ASSUME trouble' < Tries, Hearing'
      PROVE  Covered(toClient, client.recv, Over, Times, trouble')
  <2>1. Hearing /\ trouble < Tries
    BY <1>2, <1>4, NumbersOf
  <2>2. Covered(toClient, client.recv, Over, Times, trouble)
    BY <2>1 DEF HearInv, NumbersSent
  <2>3. PICK t \in [Nat -> Nat], x \in Nat, o \in Nat, r \in Nat :
          t = Times /\ x = trouble' /\ o = Over /\ r = client.recv
    BY <1>1, <1>2
  <2>4. \A k \in Nat : r <= k /\ k < o => t[k] <= t[k]
    OBVIOUS
  <2>5. trouble <= x /\ o <= o /\ r <= r
    BY <2>3
  <2>6. Covered(toClient, r, o, t, trouble)
    BY <2>2, <2>3
  <2>7. Covered(toClient, r, o, t, x)
    BY <1>1, <2>4, <2>5, <2>6, StillCovered
  <2> QED
    BY <2>3, <2>7
<1> QED
  BY <1>3, <1>4 DEF NumbersSent

\* A frame leaves the queue to the client.
LEMMA NumbersLess ==
  ASSUME Types, Types', HearInv, Working.mode = "shell", toClient # <<>>,
         toClient' = Tail(toClient), Over' = Over, Times' = Times,
         client.recv <= client'.recv, Hearing' => Hearing,
         \/ trouble' = trouble + 1 /\ client' = client
         \/ trouble' = trouble /\ (Hearing /\ trouble < Tries /\ 1 \in Live(toClient) =>
                                     toClient[1].seq < client'.recv)
  PROVE  NumbersSent' /\ OutputsInTurn'
<1>1. /\ toClient \in Seq(ToClient) /\ Over \in Nat /\ Times \in [Nat -> Nat]
      /\ client.recv \in Nat /\ trouble \in Nat /\ Tries \in Nat
  BY CountTypes
<1>2. client'.recv \in Nat /\ trouble' \in Nat
  BY DEF Types, Counts, ClientTypes, ClientState
<1>3. OutputsInTurn'
  BY <1>1, InTurnLess DEF OutputsInTurn, HearInv
<1>4. ASSUME trouble' < Tries, Hearing'
      PROVE  Covered(Tail(toClient), client'.recv, Over, Times, trouble')
  <2>1. Hearing /\ trouble < Tries
    <3>1. trouble < Tries
      BY <1>4, NumbersOf
    <3> QED
      BY <1>4, <3>1
  <2>2. Covered(toClient, client.recv, Over, Times, trouble)
    BY <2>1 DEF HearInv, NumbersSent
  <2>3. CASE trouble' = trouble + 1 /\ client' = client
    BY <1>1, <2>2, <2>3, CoveredLost
  <2>4. CASE trouble' = trouble /\ (1 \in Live(toClient) => toClient[1].seq < client'.recv)
    BY <1>1, <1>2, <2>2, <2>4, CoveredRead
  <2> QED
    BY <2>1, <2>3, <2>4
<1> QED
  BY <1>3, <1>4 DEF NumbersSent

\* While the client hears, no frame it reads is ahead of the number expected:
\* of that number, one comes first.
LEMMA NoneAhead ==
  ASSUME Types, HearInv, Working.mode = "shell", Hearing, trouble < Tries,
         1 \in Live(toClient)
  PROVE  toClient[1].seq <= client.recv
<1>1. /\ toClient \in Seq(ToClient) /\ Over \in Nat /\ Times \in [Nat -> Nat]
      /\ client.recv \in Nat /\ trouble \in Nat /\ Tries \in Nat /\ server.seq \in Nat
  BY CountTypes
<1>2. InTurn(toClient, Over) /\ Covered(toClient, client.recv, Over, Times, trouble)
  BY DEF HearInv, OutputsInTurn, NumbersSent
<1>3. PICK s \in Int : s = toClient[1].seq
  BY <1>1, ClientFrame DEF Live
<1>4. s < Over
  BY <1>2, <1>3 DEF InTurn
<1> SUFFICES ASSUME client.recv < s PROVE FALSE
  BY <1>3, NumbersOf
<1>5. Times[client.recv] = Tries
  <2>1. Waiting => s < server.seq + 1
    BY <1>4 DEF Over
  <2>2. Waiting => client.recv # server.seq
    BY <2>1, NumbersOf
  <2> QED
    BY <1>1, <2>2 DEF Times
<1>6. Tries <= Cardinality(Sends(toClient, client.recv)) + trouble
  <2>1. client.recv < Over
    BY <1>4, NumbersOf
  <2>2. client.recv <= client.recv /\ client.recv \in Nat
    BY NumbersOf
  <2> QED
    BY <1>2, <1>5, <2>1, <2>2 DEF Covered
<1>7. Sends(toClient, client.recv) # {}
  <2> SUFFICES ASSUME Sends(toClient, client.recv) = {}
               PROVE  FALSE
    OBVIOUS
  <2>1. Tries <= 0 + trouble
    BY <1>6, FS_EmptySet
  <2> QED
    BY <2>1, NumbersOf
<1>8. PICK i \in Live(toClient) : toClient[i].seq = client.recv
  BY <1>7 DEF Sends
<1>9. 1 < i
  <2>0. i # 1
    BY <1>3, <1>8, NumbersOf
  <2>1. i # 1 /\ i \in 1 .. Len(toClient) /\ Len(toClient) \in Nat
    BY <1>1, <2>0, LiveFinite
  <2> QED
    BY <2>1
<1>10. s <= client.recv
  BY <1>2, <1>3, <1>8, <1>9 DEF InTurn
<1> QED
  BY <1>1, <1>10

LEMMA NumbersNext ==
  ASSUME Types, Types', HearInv, Working.mode = "shell", Next, ~ NextClient
  PROVE  NumbersSent' /\ OutputsInTurn'
<1>0. AnswersStart /\ FramesOfShell /\ Started
  BY DEF HearInv
<1>1. toClient \in Seq(ToClient) /\ toServer \in Seq(ToServer) /\ client \in ClientState
  BY CountTypes
<1>2. ASSUME UNCHANGED server
      PROVE  Over' = Over /\ Times' = Times
  BY <1>2 DEF Over, Times, Waiting, NextNumber
<1>3. CASE StartShell
  <2>1. /\ client' = [client EXCEPT !.pc = "answer"] /\ UNCHANGED <<server, toClient, trouble>>
    BY <1>3 DEF StartShell
  <2>2. client'.pc = "answer" /\ client'.recv = client.recv
    BY <1>1, <2>1 DEF ClientState
  <2>3. trouble <= trouble' /\ (Hearing' => Hearing)
    BY <2>1, <2>2, NumbersOf DEF Hearing
  <2> QED
    BY <1>2, <2>1, <2>2, <2>3, NumbersKept
<1>4. CASE ReadAnswer
  <2>1. /\ client.pc = "answer" /\ toClient # <<>> /\ UNCHANGED <<server, trouble>>
        /\ toClient' = Tail(toClient)
        /\ client' = client \/ client' \in {Answered(client), Failed(client)}
        /\ Head(toClient).type \notin Reply => client' = client
    BY <1>4 DEF ReadAnswer
  <2>2. client'.recv = client.recv /\ client.recv <= client'.recv
    BY <2>1, ShellClient, NumbersOf
  <2>3. Answers(toClient') # {} => Answers(toClient) # {}
    BY <1>1, <2>1, AnswersLess
  <2>4. Hearing' => Hearing
    <3>1. CASE Head(toClient).type \notin Reply
      BY <2>1, <2>3, <3>1 DEF Hearing
    <3>2. CASE Head(toClient).type \in Reply
      BY <1>1, <2>1, <3>2, AnswersLess DEF Hearing
    <3> QED
      BY <3>1, <3>2
  <2>5. Hearing /\ 1 \in Live(toClient) => FALSE
    <3> SUFFICES ASSUME Hearing, 1 \in Live(toClient)
                 PROVE  FALSE
      OBVIOUS
    <3>1. PICK i \in Answers(toClient) : TRUE
      BY <2>1 DEF Hearing
    <3>2. i \in DOMAIN toClient /\ toClient[i].type \in Reply /\ i >= 1
      BY <1>1 DEF Answers
    <3> QED
      BY <3>2 DEF Live
  <2> QED
    BY <1>2, <2>1, <2>2, <2>4, <2>5, NumbersLess
<1>5. ASSUME client.pc = "answer", client' = Failed(client), client.tries < trouble',
             trouble' \in Nat, trouble <= trouble', UNCHANGED <<server, toClient>>
      PROVE  NumbersSent' /\ OutputsInTurn'
  <2>1. client'.recv = client.recv
    BY <1>5, ShellClient
  <2>2. ASSUME trouble' < Tries, Hearing'
        PROVE  Hearing
    <3>0. client.tries \in Nat
      BY CountTypes
    <3>1. client.tries + 1 < Tries
      BY <1>5, <2>2, <3>0, NumbersOf
    <3>2. client'.pc = "start"
      BY <1>5, <3>1, ShellClient
    <3> QED
      BY <1>5, <2>2, <3>2 DEF Hearing
  <2> QED
    BY <1>2, <1>5, <2>1, <2>2, NumbersKept
<1>6. CASE NoAnswer
  <2>1. /\ client.pc = "answer" /\ client' = Failed(client)
        /\ UNCHANGED <<server, toClient, trouble>> /\ toServer = <<>> /\ toClient = <<>>
    BY <1>6 DEF NoAnswer, NothingComes
  <2>2. ~ StartComes
    BY <2>1 DEF StartComes, Answers
  <2>3. client.tries < trouble
    BY <1>0, <2>1, <2>2 DEF Started
  <2> QED
    BY <1>5, <2>1, <2>3, NumbersOf
<1>7. CASE NoAnswerYet
  <2>1. /\ client.pc = "answer" /\ client' = Failed(client) /\ trouble' = trouble + 1
        /\ UNCHANGED <<server, toClient>>
    BY <1>7 DEF NoAnswerYet
  <2>2. client.tries \in Nat /\ trouble \in Nat
    BY CountTypes
  <2>3. client.tries < trouble + 1
    BY <1>0, <2>1, <2>2 DEF Started
  <2> QED
    BY <1>5, <2>1, <2>2, <2>3
<1>8. CASE ReadOutput
  <2>1. /\ toClient # <<>> /\ toClient' = Tail(toClient) /\ UNCHANGED <<server, trouble>>
        /\ client.pc = "shell" /\ client'.pc = "shell"
        /\ \/ client' = client /\ (IsOutput(Head(toClient)) => Head(toClient).seq # client.recv)
           \/ client'.recv = client.recv + 1
    BY <1>8, PrintingClient
  <2>2. client.recv <= client'.recv /\ (Hearing' => Hearing)
    BY <2>1, NumbersOf DEF Hearing
  <2>3. ASSUME trouble < Tries, 1 \in Live(toClient)
        PROVE  toClient[1].seq < client'.recv
    <3>1. toClient[1].seq <= client.recv
      BY <2>1, <2>3, NoneAhead DEF Hearing
    <3>2. toClient[1].seq \in Int /\ IsOutput(toClient[1]) /\ Head(toClient) = toClient[1]
      BY <1>1, <2>1, <2>3, ClientFrame, Shifted DEF Live
    <3> QED
      BY <2>1, <3>1, <3>2, NumbersOf
  <2> QED
    BY <1>2, <2>1, <2>2, <2>3, NumbersLess
<1>9. CASE Type \/ ShellWrites
  <2>1. UNCHANGED <<client, toClient, trouble>>
    BY <1>9 DEF Type, ShellWrites
  <2>2. Over' = Over /\ Times' = Times
    <3>1. CASE Type
      BY <1>2, <3>1 DEF Type
    <3>2. CASE ShellWrites
      <4>1. PICK o : server' = [server EXCEPT !.out = o]
        BY <3>2 DEF ShellWrites
      <4>2. /\ server'.pc = server.pc /\ server'.state = server.state
            /\ server'.seq = server.seq /\ server'.tries = server.tries
        BY <4>1, CountTypes DEF ServerState
      <4> QED
        BY <4>2 DEF Over, Times, Waiting, NextNumber
    <3> QED
      BY <1>9, <3>1, <3>2
  <2>3. trouble <= trouble' /\ (Hearing' => Hearing)
    BY <2>1, NumbersOf DEF Hearing
  <2> QED
    BY <2>1, <2>2, <2>3, NumbersKept
<1>10. CASE ProcessOther /\ ~ Waiting
            /\ Head(toServer).type \notin {"put_name_msg", "transfer_end_msg"}
  <2>1. UNCHANGED <<client, trouble>> /\ trouble <= trouble'
    BY <1>10, NumbersOf DEF ProcessOther
  <2>2. CASE IsStart(Head(toServer))
    <3>1. PICK m : m = Msg("recv_ok_msg", 1, Junk)
      OBVIOUS
    <3>2. m \in ToClient /\ m.type \in Reply /\ toClient' = Append(toClient, m)
      BY <1>10, <2>2, <3>1 DEF Msg, ToClient, MsgType, Reply, Junk, ProcessOther, IsStart
    <3>3. Live(toClient') = {}
      BY <1>1, <3>2, NoneLive
    <3>4. Over' = 1
      <4>1. server'.seq = 1 /\ ~ Waiting'
        BY <1>10, <2>2, OtherCounts DEF Counting, Waiting
      <4> QED
        BY <4>1 DEF Over, NextNumber
    <3>5. OutputsInTurn'
      BY <3>3 DEF OutputsInTurn, InTurn
    <3>6. NumbersSent'
      <4>1. client.recv >= 1 /\ client.recv \in Nat
        BY <1>0, NumbersOf DEF Started
      <4>2. \A k \in Nat : ~ (client.recv <= k /\ k < Over')
        BY <3>4, <4>1
      <4> QED
        BY <2>1, <4>2 DEF NumbersSent, Covered
    <3> QED
      BY <3>5, <3>6
  <2>3. CASE ~ IsStart(Head(toServer))
    <3>1. Over' = Over /\ Times' = Times
      BY <1>10, <2>3, OtherCounts, SameCounts
    <3>2. UNCHANGED toClient
      BY <1>10, <2>3 DEF ProcessOther, IsStart
    <3>3. Hearing' => Hearing
      BY <2>1, <3>2 DEF Hearing
    <3> QED
      BY <2>1, <3>1, <3>2, <3>3, NumbersKept
  <2> QED
    BY <2>2, <2>3
<1>11. CASE ForwardOutput \/ ReadAcknowledgement \/ NoAcknowledgement \/ NoAcknowledgementYet
  <2>1. UNCHANGED client /\ trouble <= trouble'
    <3>1. UNCHANGED client /\ trouble' \in {trouble, trouble + 1}
      BY <1>11
         DEF ForwardOutput, ReadAcknowledgement, NoAcknowledgement, NoAcknowledgementYet
    <3> QED
      BY <3>1, NumbersOf
  <2>2. CASE SendsNumber
    BY <2>1, <2>2, NumberSent
  <2>3. CASE EndsNumber
    BY <2>1, <2>3, NumberEnded
  <2>4. CASE KeepsNumber
    <3>1. Over' = Over /\ Times' = Times
      BY <2>4, SameCounts DEF KeepsNumber
    <3>2. UNCHANGED toClient /\ (Hearing' => Hearing)
      BY <2>1, <2>4 DEF Hearing, KeepsNumber
    <3> QED
      BY <2>1, <3>1, <3>2, NumbersKept
  <2> QED
    BY <1>11, <2>2, <2>3, <2>4, OutputCounts DEF HearInv
<1>12. CASE Lose
  <2>1. UNCHANGED <<client, server>> /\ trouble' = trouble + 1
    BY <1>12 DEF Lose
  <2>2. trouble <= trouble' /\ client.recv <= client'.recv
    BY <2>1, NumbersOf
  <2>3. CASE UNCHANGED toClient
    <3>1. Hearing' => Hearing
      BY <2>1, <2>3 DEF Hearing
    <3> QED
      BY <1>2, <2>1, <2>2, <2>3, <3>1, NumbersKept
  <2>4. CASE toClient # <<>> /\ toClient' = Tail(toClient)
    <3>1. Hearing' => Hearing
      BY <1>1, <2>1, <2>4, AnswersLess DEF Hearing
    <3> QED
      BY <1>2, <2>1, <2>2, <2>4, <3>1, NumbersLess
  <2> QED
    BY <1>12, <2>3, <2>4 DEF Lose
<1> QED
  BY <1>3, <1>4, <1>6, <1>7, <1>8, <1>9, <1>10, <1>11, <1>12, ShellSteps

LEMMA WaitingNext ==
  ASSUME Types, Types', HearInv, [Next]_vars
  PROVE  Waiting' => server'.state = "shell"
<1>1. Waiting => server.state = "shell"
  BY DEF HearInv
<1>2. CASE server' = server
  BY <1>1, <1>2 DEF Waiting
<1>3. CASE ProcessOther \/ ContinueReceivingFile \/ DiskFull
  <2>1. server'.pc = "loop"
    BY <1>3, OtherServer, ChunkServer, FullServer
  <2> QED
    BY <2>1 DEF Waiting
<1>4. CASE ForwardOutput \/ ReadAcknowledgement \/ NoAcknowledgement \/ NoAcknowledgementYet
  BY <1>1, <1>4, OutputCounts DEF SendsNumber, EndsNumber, KeepsNumber, Counting, Waiting
<1>5. CASE ShellWrites
  <2>1. PICK o : server' = [server EXCEPT !.out = o]
    BY <1>5 DEF ShellWrites
  <2>2. server'.pc = server.pc /\ server'.state = server.state
    BY <2>1, CountTypes DEF ServerState
  <2> QED
    BY <1>1, <2>2 DEF Waiting
<1> QED
  BY <1>2, <1>3, <1>4, <1>5
     DEF Next, ClientStep, ServerStep, Timeout, PutFile, SendChunk, StartShell, ReadAnswer,
         NoAnswer,
         ReadOutput, NoAnswerYet, Type, NextClient, Lose, vars

\* Nothing is under way to a client that has just begun.
LEMMA NewShell ==
  ASSUME Types, Types', toClient' = <<>>, toServer' = <<>>, Working'.mode = "shell",
         client' = Fresh("shell")
  PROVE  (NumbersSent /\ OutputsInTurn /\ AnswersStart /\ FramesOfShell /\ Started)'
<1>1. client'.pc = "start" /\ client'.tries = 0 /\ client'.seq = 1 /\ client'.recv = 1
  BY DEF Fresh, FirstStep
<1>2. Answers(toClient') = {} /\ Live(toClient') = {}
  BY DEF Answers, Live
<1>3. NumbersSent'
  BY <1>1, <1>2 DEF NumbersSent, Hearing
<1>4. OutputsInTurn' /\ AnswersStart' /\ FramesOfShell'
  BY <1>2 DEF OutputsInTurn, InTurn, AnswersStart, FramesOfShell
<1>5. Started'
  BY <1>1 DEF Started, Types, Counts
<1> QED
  BY <1>3, <1>4, <1>5

LEMMA HearNext ==
  ASSUME Types, Types', HearInv, [Next]_vars
  PROVE  HearInv'
<1>1. ASSUME Working'.mode = "shell"
      PROVE  (NumbersSent /\ OutputsInTurn /\ AnswersStart /\ FramesOfShell /\ Started)'
  <2>1. CASE NextClient
    <3>1. /\ toClient' = <<>> /\ toServer' = <<>>
          /\ client' = Fresh(Working'.mode)
      BY <2>1 DEF NextClient, Working
    <3> QED
      BY <1>1, <3>1, NewShell
  <2>2. CASE Next /\ ~ NextClient
    <3>1. Working' = Working
      BY <2>2
         DEF Working, Next, ClientStep, ServerStep, Timeout, PutFile, SendChunk, StartShell,
             ReadAnswer,
             NoAnswer, ReadOutput, ProcessOther, ContinueReceivingFile, ForwardOutput,
             ReadAcknowledgement, NoAcknowledgement, NoAnswerYet, NoAcknowledgementYet, Type,
             DiskFull, ShellWrites, Lose
    <3> QED
      BY <1>1, <2>2, <3>1, NumbersNext, FramesHeard, StartedNext
  <2>3. CASE UNCHANGED vars
    BY <1>1, <2>3
       DEF vars, HearInv, NumbersSent, OutputsInTurn, AnswersStart, FramesOfShell, Started,
           StartComes, Hearing, Over, Times, Waiting, NextNumber, Working
  <2> QED
    BY <2>1, <2>2, <2>3
<1> QED
  BY <1>1, WaitingNext DEF HearInv

LEMMA InitHear == Init => HearInv
<1> SUFFICES ASSUME Init PROVE HearInv
  OBVIOUS
<1>1. /\ toServer = <<>> /\ toClient = <<>> /\ trouble = 0 /\ ~ Waiting
      /\ client = Fresh(Working.mode)
  BY DEF Init, Waiting, Working
<1>2. Answers(toClient) = {} /\ Live(toClient) = {}
  BY <1>1 DEF Answers, Live
<1>3. ASSUME Working.mode = "shell"
      PROVE  NumbersSent /\ OutputsInTurn /\ AnswersStart /\ FramesOfShell /\ Started
  <2>1. client.pc = "start" /\ client.tries = 0 /\ client.seq = 1 /\ client.recv = 1
    BY <1>1, <1>3 DEF Fresh, FirstStep
  <2>2. NumbersSent
    BY <1>2, <2>1 DEF NumbersSent, Hearing
  <2>3. OutputsInTurn /\ AnswersStart /\ FramesOfShell
    BY <1>1, <1>2 DEF OutputsInTurn, InTurn, AnswersStart, FramesOfShell
  <2>4. Started
    BY <1>1, <2>1 DEF Started
  <2> QED
    BY <2>2, <2>3, <2>4
<1> QED
  BY <1>1, <1>3 DEF HearInv

\* For any clients and losses: unless more went wrong than the server sends an
\* output times, main of a shell client does not wait for a number that
\* read_and_fwd_shell_output is past.
THEOREM NoShellDeaf == Spec => []NotDeaf
<1>1. Types /\ HearInv => NotDeaf
  <2> SUFFICES ASSUME Types, HearInv, Working.mode = "shell", client.pc = "shell",
                      NothingComes, trouble < Tries
               PROVE  client.recv >= NextNumber
    BY DEF NotDeaf
  <2>0. NextNumber \in Nat /\ client.recv \in Nat
    BY NumbersOf DEF NextNumber
  <2> SUFFICES ASSUME client.recv < NextNumber
               PROVE  FALSE
    BY <2>0
  <2>1. ~ Waiting /\ toClient = <<>>
    BY DEF NothingComes, Waiting
  <2>2. Over = NextNumber /\ Hearing
    BY <2>1 DEF Over, Hearing
  <2>3. Covered(toClient, client.recv, Over, Times, trouble)
    BY <2>2 DEF HearInv, NumbersSent
  <2>4. Times[client.recv] <= Cardinality(Sends(toClient, client.recv)) + trouble
    <3>1. client.recv <= client.recv /\ client.recv \in Nat
      BY NumbersOf
    <3> QED
      BY <2>2, <2>3, <3>1 DEF Covered
  <2>5. Times[client.recv] = Tries
    BY <2>1, NumbersOf DEF Times
  <2>6. Cardinality(Sends(toClient, client.recv)) = 0
    BY <2>1, NoneSent
  <2> QED
    BY <2>4, <2>5, <2>6, NumbersOf
<1>2. Init => Types /\ HearInv
  BY InitTypes, InitHear
<1>3. Types /\ HearInv /\ [Next]_vars => Types' /\ HearInv'
  BY NextTypes, HearNext
<1> QED
  BY <1>1, <1>2, <1>3, PTL DEF Spec

-----------------------------------------------------------------------------
(* Files that are whole. A chunk that is refused, or whose answer is lost, *)
(* takes a mishap; so does each copy of it that was not needed.            *)

(* Frames of some types between two places of a queue.                     *)
Of(s, K, lo, hi) == {k \in lo .. hi : s[k].type \in K}
Count(s, K, lo, hi) == Cardinality(Of(s, K, lo, hi))

LEMMA CountNat ==
  ASSUME NEW s, NEW K, NEW lo \in Int, NEW hi \in Int
  PROVE  /\ IsFiniteSet(Of(s, K, lo, hi)) /\ Count(s, K, lo, hi) \in Nat
         /\ hi < lo => Count(s, K, lo, hi) = 0
         /\ hi >= lo => Count(s, K, lo, hi) <= hi - lo + 1
<1>1. IsFiniteSet(lo .. hi) /\ Cardinality(lo .. hi) = IF lo > hi THEN 0 ELSE hi - lo + 1
  BY FS_Interval
<1>2. Of(s, K, lo, hi) \in SUBSET (lo .. hi)
  BY DEF Of
<1>3. IsFiniteSet(Of(s, K, lo, hi)) /\ Count(s, K, lo, hi) <= Cardinality(lo .. hi)
  BY <1>1, <1>2, FS_Subset DEF Count
<1>4. Count(s, K, lo, hi) \in Nat
  BY <1>3, FS_CardinalityType DEF Count
<1> QED
  BY <1>1, <1>3, <1>4

LEMMA CountFirst ==
  ASSUME NEW s, NEW K, NEW lo \in Int, NEW hi \in Int, lo <= hi
  PROVE  Count(s, K, lo, hi) = Count(s, K, lo + 1, hi) + IF s[lo].type \in K THEN 1 ELSE 0
<1>1. lo \notin Of(s, K, lo + 1, hi) /\ IsFiniteSet(Of(s, K, lo + 1, hi))
  <2>1. lo + 1 \in Int /\ lo \notin lo + 1 .. hi
    OBVIOUS
  <2>2. IsFiniteSet(Of(s, K, lo + 1, hi))
    BY <2>1, CountNat
  <2> QED
    BY <2>1, <2>2 DEF Of
<1>2. CASE s[lo].type \in K
  <2>1. Of(s, K, lo, hi) = Of(s, K, lo + 1, hi) \cup {lo}
    BY <1>2 DEF Of
  <2> QED
    BY <1>1, <1>2, <2>1, FS_AddElement DEF Count
<1>3. CASE s[lo].type \notin K
  <2>1. Of(s, K, lo, hi) = Of(s, K, lo + 1, hi)
    BY <1>3 DEF Of
  <2>2. Count(s, K, lo + 1, hi) \in Nat
    BY CountNat
  <2> QED
    BY <1>3, <2>1, <2>2 DEF Count
<1> QED
  BY <1>2, <1>3

LEMMA CountLast ==
  ASSUME NEW s, NEW K, NEW lo \in Int, NEW hi \in Int, lo <= hi
  PROVE  Count(s, K, lo, hi) = Count(s, K, lo, hi - 1) + IF s[hi].type \in K THEN 1 ELSE 0
<1>1. hi \notin Of(s, K, lo, hi - 1) /\ IsFiniteSet(Of(s, K, lo, hi - 1))
  <2>1. hi - 1 \in Int /\ hi \notin lo .. hi - 1
    OBVIOUS
  <2>2. IsFiniteSet(Of(s, K, lo, hi - 1))
    BY <2>1, CountNat
  <2> QED
    BY <2>1, <2>2 DEF Of
<1>2. CASE s[hi].type \in K
  <2>1. Of(s, K, lo, hi) = Of(s, K, lo, hi - 1) \cup {hi}
    BY <1>2 DEF Of
  <2> QED
    BY <1>1, <1>2, <2>1, FS_AddElement DEF Count
<1>3. CASE s[hi].type \notin K
  <2>1. Of(s, K, lo, hi) = Of(s, K, lo, hi - 1)
    BY <1>3 DEF Of
  <2>2. Count(s, K, lo, hi - 1) \in Nat
    BY CountNat
  <2> QED
    BY <1>3, <2>1, <2>2 DEF Count
<1> QED
  BY <1>2, <1>3

LEMMA CountShift ==
  ASSUME NEW s, NEW s2, NEW K, NEW lo \in Int, NEW hi \in Int,
         \A k \in lo .. hi : s2[k] = s[k + 1]
  PROVE  Count(s2, K, lo, hi) <= Count(s, K, lo + 1, hi + 1)
<1> DEFINE A == Of(s2, K, lo, hi)
           B == Of(s, K, lo + 1, hi + 1)
           f == [i \in A |-> i + 1]
<1>1. \A i \in A : i \in Int /\ i + 1 \in B
  BY DEF Of
<1>2. f \in Injection(A, B)
  <2>1. f \in [A -> B]
    BY <1>1
  <2>2. \A a, b \in A : f[a] = f[b] => a = b
    BY <1>1
  <2> QED
    BY <2>1, <2>2 DEF Injection, IsInjective
<1>3. IsFiniteSet(B)
  BY CountNat
<1>4. Cardinality(A) <= Cardinality(B)
  <2> HIDE DEF A, B, f
  <2> QED
    BY <1>2, <1>3, FS_Injection
<1> QED
  BY <1>4 DEF Count

LEMMA CountSame ==
  ASSUME NEW s, NEW s2, NEW K, NEW lo \in Int, NEW hi \in Int,
         \A k \in lo .. hi : s2[k] = s[k]
  PROVE  Count(s2, K, lo, hi) = Count(s, K, lo, hi)
<1>1. Of(s2, K, lo, hi) = Of(s, K, lo, hi)
  BY DEF Of
<1> QED
  BY <1>1 DEF Count

\* In the tail of a queue all is one place earlier, and the first frame is gone.
LEMMA CountTail ==
  ASSUME NEW S, NEW q \in Seq(S), q # <<>>, NEW K, NEW lo \in Nat \ {0},
         NEW hi \in 0 .. Len(q)
  PROVE  /\ Count(Tail(q), K, lo, hi - 1) <= Count(q, K, lo + 1, hi)
         /\ hi >= 1 => Count(Tail(q), K, 1, hi - 1) + (IF q[1].type \in K THEN 1 ELSE 0)
                         <= Count(q, K, 1, hi)
<1>1. PICK q2 : q2 = Tail(q)
  OBVIOUS
<1>2. Len(q) \in Nat /\ \A i \in 1 .. Len(q) - 1 : q2[i] = q[i + 1]
  BY <1>1, Shifted
<1>3. ASSUME NEW l \in Nat \ {0}
      PROVE  Count(q2, K, l, hi - 1) <= Count(q, K, l + 1, hi)
  <2>1. PICK h : h = hi - 1
    OBVIOUS
  <2>2. h \in Int /\ h + 1 = hi /\ \A k \in l .. h : k \in 1 .. Len(q) - 1
    BY <1>2, <2>1
  <2>3. Count(q2, K, l, h) <= Count(q, K, l + 1, h + 1)
    BY <1>2, <2>2, CountShift
  <2> QED
    BY <2>1, <2>2, <2>3
<1>4. ASSUME hi >= 1
      PROVE  Count(q2, K, 1, hi - 1) + (IF q[1].type \in K THEN 1 ELSE 0) <= Count(q, K, 1, hi)
  <2>1. hi \in Int /\ 1 <= hi
    BY <1>2, <1>4
  <2>2. Count(q, K, 1, hi) = Count(q, K, 1 + 1, hi) + IF q[1].type \in K THEN 1 ELSE 0
    BY <2>1, CountFirst
  <2>3. Count(q2, K, 1, hi - 1) <= Count(q, K, 1 + 1, hi)
    BY <1>3
  <2>4. Count(q2, K, 1, hi - 1) \in Nat /\ Count(q, K, 1 + 1, hi) \in Nat
    BY <2>1, CountNat
  <2> QED
    BY <2>2, <2>3, <2>4
<1> QED
  BY <1>1, <1>3, <1>4

LEMMA CountEarlier ==
  ASSUME NEW S, NEW q \in Seq(S), NEW m \in S, NEW K, NEW lo \in Nat \ {0},
         NEW hi \in 0 .. Len(q)
  PROVE  Count(Append(q, m), K, lo, hi) = Count(q, K, lo, hi)
<1>1. PICK q2 : q2 = Append(q, m)
  OBVIOUS
<1>2. Len(q) \in Nat /\ \A i \in 1 .. Len(q) : q2[i] = q[i]
  BY <1>1, Appended
<1>3. \A k \in lo .. hi : q2[k] = q[k]
  BY <1>2
<1>4. lo \in Int /\ hi \in Int
  BY <1>2
<1>5. Count(q2, K, lo, hi) = Count(q, K, lo, hi)
  BY <1>3, <1>4, CountSame
<1> QED
  BY <1>1, <1>5

LEMMA CountAppend ==
  ASSUME NEW S, NEW q \in Seq(S), NEW m \in S, NEW K, NEW lo \in Nat \ {0},
         lo <= Len(q) + 1
  PROVE  Count(Append(q, m), K, lo, Len(q) + 1)
           = Count(q, K, lo, Len(q)) + IF m.type \in K THEN 1 ELSE 0
<1>1. PICK q2 : q2 = Append(q, m)
  OBVIOUS
<1>2. Len(q) \in Nat /\ q2[Len(q) + 1] = m
  BY <1>1, Appended
<1>3. PICK h \in Int : h = Len(q) + 1
  BY <1>2
<1>4. Count(q2, K, lo, h) = Count(q2, K, lo, h - 1) + IF q2[h].type \in K THEN 1 ELSE 0
  BY <1>3, CountLast
<1>5. h - 1 = Len(q) /\ q2[h] = m /\ Len(q) \in 0 .. Len(q)
  BY <1>2, <1>3
<1>6. Count(q2, K, lo, Len(q)) = Count(q, K, lo, Len(q))
  BY <1>1, <1>5, CountEarlier
<1> QED
  BY <1>1, <1>3, <1>4, <1>5, <1>6

-----------------------------------------------------------------------------
(* What is under way between the server and a client that puts files.      *)

ChunkType == {"transfer_cont_msg"}

\* Chunks up to place i that the server will not take; and that it will expect
\* chunk n when it has dealt with all that comes before place i.
Spent(q, o, r, i) ==
  \A k \in 1 .. i : Chunk(q[k]) => (\A j \in 1 .. k - 1 : ~ Name(q[j])) /\ (o => q[k].seq < r)
Ready(q, o, r, i, n) ==
  \/ n = 1 /\ i > 1 /\ Name(q[i - 1])
  \/ o /\ r = n /\ \A k \in 1 .. i - 1 : ~ Name(q[k]) /\ ~ End(q[k])
Refused(p, a, b) == \A k \in a .. b : p[k].type \in Reply => p[k].type = "recv_err_msg"

\* Nothing under way is of use, and there are at most x chunks and answers.
Total(q, p) == Count(p, Reply, 1, Len(p)) + Count(q, ChunkType, 1, Len(q))
Loose(q, p, o, r, x) ==
  Spent(q, o, r, Len(q)) /\ Refused(p, 1, Len(p)) /\ Total(q, p) <= x

LEMMA ChunkIs == \A m : Chunk(m) <=> m.type \in ChunkType
BY DEF Chunk, ChunkType

LEMMA SpentTail ==
  ASSUME NEW q \in Seq(ToServer), q # <<>>, NEW i \in 0 .. Len(q) - 1, NEW o, NEW o2,
         NEW r \in Nat, NEW r2 \in Nat, Spent(q, o, r, i + 1),
         Name(q[1]) \/ (o2 => o /\ r <= r2)
  PROVE  Spent(Tail(q), o2, r2, i)
<1>1. PICK q2 : q2 = Tail(q)
  OBVIOUS
<1>2. Len(q) \in Nat /\ \A k \in 1 .. Len(q) - 1 : q2[k] = q[k + 1] /\ q[k + 1] \in ToServer
  BY <1>1, Shifted
<1>3. ASSUME NEW k \in 1 .. i, Chunk(q2[k])
      PROVE  (\A j \in 1 .. k - 1 : ~ Name(q2[j])) /\ (o2 => q2[k].seq < r2)
  <2>1. k + 1 \in 1 .. i + 1 /\ k \in 1 .. Len(q) - 1 /\ 1 \in 1 .. k + 1 - 1 /\ k + 1 - 1 = k
    BY <1>2
  <2>2. Chunk(q[k + 1]) /\ q2[k] = q[k + 1] /\ q[k + 1].seq \in Int
    BY <1>2, <1>3, <2>1 DEF ToServer
  <2>3. (\A j \in 1 .. k : ~ Name(q[j])) /\ (o => q[k + 1].seq < r)
    BY <2>1, <2>2 DEF Spent
  <2>4. ~ Name(q[1])
    BY <2>1, <2>3
  <2>5. ASSUME NEW j \in 1 .. k - 1
        PROVE  ~ Name(q2[j])
    <3>1. j + 1 \in 1 .. k /\ j \in 1 .. Len(q) - 1
      BY <2>1
    <3> QED
      BY <1>2, <2>3, <3>1
  <2> QED
    BY <2>2, <2>3, <2>4, <2>5
<1> QED
  BY <1>1, <1>3 DEF Spent

LEMMA SpentOn ==
  ASSUME NEW q \in Seq(ToServer), NEW m \in ToServer, NEW o, NEW r, NEW i \in 0 .. Len(q),
         Spent(q, o, r, i)
  PROVE  Spent(Append(q, m), o, r, i)
<1>1. PICK q2 : q2 = Append(q, m)
  OBVIOUS
<1>2. \A k \in 1 .. Len(q) : q2[k] = q[k]
  BY <1>1, Appended
<1>3. \A k \in 1 .. i : q2[k] = q[k] /\ \A j \in 1 .. k - 1 : q2[j] = q[j]
  BY <1>2
<1> QED
  BY <1>1, <1>3 DEF Spent

LEMMA SpentNew ==
  ASSUME NEW q \in Seq(ToServer), NEW m \in ToServer, NEW o, NEW r, Spent(q, o, r, Len(q)),
         Chunk(m) => (\A j \in 1 .. Len(q) : ~ Name(q[j])) /\ (o => m.seq < r)
  PROVE  Spent(Append(q, m), o, r, Len(q) + 1)
<1>1. PICK q2 : q2 = Append(q, m)
  OBVIOUS
<1>2. Len(q) \in Nat /\ q2[Len(q) + 1] = m /\ \A k \in 1 .. Len(q) : q2[k] = q[k]
  BY <1>1, Appended
<1>3. Spent(q2, o, r, Len(q))
  BY <1>1, <1>2, SpentOn
<1>4. ASSUME NEW k \in 1 .. Len(q) + 1, Chunk(q2[k])
      PROVE  (\A j \in 1 .. k - 1 : ~ Name(q2[j])) /\ (o => q2[k].seq < r)
  <2>1. CASE k \in 1 .. Len(q)
    BY <1>3, <1>4, <2>1 DEF Spent
  <2>2. CASE k = Len(q) + 1
    <3>1. q2[k] = m /\ \A j \in 1 .. k - 1 : j \in 1 .. Len(q)
      BY <1>2, <2>2
    <3> QED
      BY <1>2, <1>4, <3>1
  <2> QED
    BY <1>2, <2>1, <2>2
<1> QED
  BY <1>1, <1>4 DEF Spent

LEMMA ReadyTail ==
  ASSUME NEW q \in Seq(ToServer), q # <<>>, NEW i \in 1 .. Len(q), NEW o, NEW o2, NEW r, NEW r2,
         NEW n, Ready(q, o, r, i + 1, n), Name(q[1]) => o2 /\ r2 = 1,
         Name(q[1]) \/ End(q[1]) \/ ((o2 <=> o) /\ r2 = r)
  PROVE  Ready(Tail(q), o2, r2, i, n)
<1>1. PICK q2 : q2 = Tail(q)
  OBVIOUS
<1>2. Len(q) \in Nat /\ \A k \in 1 .. Len(q) - 1 : q2[k] = q[k + 1]
  BY <1>1, Shifted
<1>3. CASE n = 1 /\ Name(q[i + 1 - 1])
  <2>1. CASE i = 1
    <3>1. Name(q[1]) /\ 1 .. 1 - 1 = {}
      BY <1>3, <2>1
    <3> QED
      BY <1>1, <1>3, <2>1, <3>1 DEF Ready
  <2>2. CASE i > 1
    <3>1. i - 1 \in 1 .. Len(q) - 1 /\ i - 1 + 1 = i + 1 - 1
      BY <1>2, <2>2
    <3>2. q2[i - 1] = q[i + 1 - 1]
      BY <1>2, <3>1
    <3> QED
      BY <1>1, <1>3, <2>2, <3>2 DEF Ready
  <2> QED
    BY <1>2, <2>1, <2>2
<1>4. CASE o /\ r = n /\ \A k \in 1 .. i + 1 - 1 : ~ Name(q[k]) /\ ~ End(q[k])
  <2>1. /\ 1 \in 1 .. i + 1 - 1
        /\ \A k \in 1 .. i - 1 : k + 1 \in 1 .. i + 1 - 1 /\ k \in 1 .. Len(q) - 1
    BY <1>2
  <2>2. o2 /\ r2 = n /\ \A k \in 1 .. i - 1 : ~ Name(q2[k]) /\ ~ End(q2[k])
    BY <1>2, <1>4, <2>1
  <2> QED
    BY <1>1, <2>2 DEF Ready
<1> QED
  BY <1>3, <1>4 DEF Ready

LEMMA ReadyOn ==
  ASSUME NEW q \in Seq(ToServer), NEW m \in ToServer, NEW o, NEW r, NEW n,
         NEW i \in 1 .. Len(q) + 1, Ready(q, o, r, i, n)
  PROVE  Ready(Append(q, m), o, r, i, n)
<1>1. PICK q2 : q2 = Append(q, m)
  OBVIOUS
<1>2. Len(q) \in Nat /\ \A k \in 1 .. Len(q) : q2[k] = q[k]
  BY <1>1, Appended
<1>3. /\ \A k \in 1 .. i - 1 : q2[k] = q[k]
      /\ i > 1 => q2[i - 1] = q[i - 1]
  BY <1>2
<1> QED
  BY <1>1, <1>3 DEF Ready

LEMMA ReadyCopy ==
  ASSUME NEW q \in Seq(ToServer), NEW m \in ToServer, NEW o, NEW r, NEW n \in Nat, n > 1,
         Chunk(m), Ready(q, o, r, Len(q) + 1, n)
  PROVE  /\ o /\ r = n /\ \A j \in 1 .. Len(q) : ~ Name(q[j])
         /\ Ready(Append(q, m), o, r, Len(q) + 2, n)
<1>1. PICK q2 : q2 = Append(q, m)
  OBVIOUS
<1>2. Len(q) \in Nat /\ q2[Len(q) + 1] = m /\ \A k \in 1 .. Len(q) : q2[k] = q[k]
  BY <1>1, Appended
<1>3. Len(q) + 1 - 1 = Len(q)
  BY <1>2
<1>4. o /\ r = n /\ \A k \in 1 .. Len(q) : ~ Name(q[k]) /\ ~ End(q[k])
  BY <1>3 DEF Ready
<1>5. \A k \in 1 .. Len(q) + 2 - 1 : k \in 1 .. Len(q) \/ k = Len(q) + 1
  BY <1>2
<1>6. \A k \in 1 .. Len(q) + 2 - 1 : ~ Name(q2[k]) /\ ~ End(q2[k])
  BY <1>2, <1>4, <1>5 DEF Chunk, Name, End
<1> QED
  BY <1>1, <1>4, <1>6 DEF Ready

LEMMA RefusedTail ==
  ASSUME NEW p \in Seq(ToClient), p # <<>>, NEW a \in Nat \ {0}, NEW b \in 0 .. Len(p),
         Refused(p, a + 1, b)
  PROVE  Refused(Tail(p), a, b - 1)
<1>1. PICK p2 : p2 = Tail(p)
  OBVIOUS
<1>2. Len(p) \in Nat /\ \A k \in 1 .. Len(p) - 1 : p2[k] = p[k + 1]
  BY <1>1, Shifted
<1>3. \A k \in a .. b - 1 : k \in 1 .. Len(p) - 1 /\ k + 1 \in a + 1 .. b
  BY <1>2
<1> QED
  BY <1>1, <1>2, <1>3 DEF Refused

LEMMA RefusedAppend ==
  ASSUME NEW p \in Seq(ToClient), NEW m \in ToClient, NEW a \in Nat \ {0}
  PROVE  /\ \A b \in 0 .. Len(p) : Refused(p, a, b) => Refused(Append(p, m), a, b)
         /\ Refused(p, a, Len(p)) /\ (m.type \in Reply => m.type = "recv_err_msg")
              => Refused(Append(p, m), a, Len(p) + 1)
<1>1. PICK p2 : p2 = Append(p, m)
  OBVIOUS
<1>2. Len(p) \in Nat /\ p2[Len(p) + 1] = m /\ \A k \in 1 .. Len(p) : p2[k] = p[k]
  BY <1>1, Appended
<1>3. ASSUME NEW b \in 0 .. Len(p), Refused(p, a, b)
      PROVE  Refused(p2, a, b)
  <2>1. \A k \in a .. b : k \in 1 .. Len(p)
    BY <1>2
  <2> QED
    BY <1>2, <1>3, <2>1 DEF Refused
<1>4. ASSUME Refused(p, a, Len(p)), m.type \in Reply => m.type = "recv_err_msg"
      PROVE  Refused(p2, a, Len(p) + 1)
  <2>1. \A k \in a .. Len(p) + 1 : (k \in 1 .. Len(p) /\ k \in a .. Len(p)) \/ k = Len(p) + 1
    BY <1>2
  <2> QED
    BY <1>2, <1>4, <2>1 DEF Refused
<1> QED
  BY <1>1, <1>3, <1>4

LEMMA TotalNat ==
  ASSUME NEW q \in Seq(ToServer), NEW p \in Seq(ToClient)
  PROVE  /\ Count(p, Reply, 1, Len(p)) \in Nat /\ Count(q, ChunkType, 1, Len(q)) \in Nat
         /\ Total(q, p) \in Nat /\ Len(p) \in Nat /\ Len(q) \in Nat
<1>1. Len(p) \in Int /\ Len(q) \in Int /\ 1 \in Int /\ Len(p) \in Nat /\ Len(q) \in Nat
  OBVIOUS
<1>2. Count(p, Reply, 1, Len(p)) \in Nat /\ Count(q, ChunkType, 1, Len(q)) \in Nat
  BY <1>1, CountNat
<1> QED
  BY <1>1, <1>2 DEF Total

LEMMA TotalTail ==
  ASSUME NEW q \in Seq(ToServer), NEW p \in Seq(ToClient)
  PROVE  /\ p # <<>> => Total(q, Tail(p)) + (IF p[1].type \in Reply THEN 1 ELSE 0)
                          <= Total(q, p)
         /\ q # <<>> => Total(Tail(q), p) + (IF Chunk(q[1]) THEN 1 ELSE 0) <= Total(q, p)
<1>1. ASSUME p # <<>>
      PROVE  Total(q, Tail(p)) + (IF p[1].type \in Reply THEN 1 ELSE 0) <= Total(q, p)
  <2>1. Len(p) \in 0 .. Len(p) /\ Len(p) >= 1 /\ Len(Tail(p)) = Len(p) - 1
        /\ Tail(p) \in Seq(ToClient)
    BY <1>1, Shifted
  <2>2. Count(Tail(p), Reply, 1, Len(p) - 1) + (IF p[1].type \in Reply THEN 1 ELSE 0)
          <= Count(p, Reply, 1, Len(p))
    BY <1>1, <2>1, CountTail
  <2>3. Total(q, Tail(p)) = Count(Tail(p), Reply, 1, Len(p) - 1) + Count(q, ChunkType, 1, Len(q))
    BY <2>1 DEF Total
  <2>4. /\ Count(Tail(p), Reply, 1, Len(p) - 1) \in Nat /\ Count(q, ChunkType, 1, Len(q)) \in Nat
        /\ Count(p, Reply, 1, Len(p)) \in Nat
    BY <2>1, TotalNat
  <2> QED
    BY <2>2, <2>3, <2>4 DEF Total
<1>2. ASSUME q # <<>>
      PROVE  Total(Tail(q), p) + (IF Chunk(q[1]) THEN 1 ELSE 0) <= Total(q, p)
  <2>1. Len(q) \in 0 .. Len(q) /\ Len(q) >= 1 /\ Len(Tail(q)) = Len(q) - 1
        /\ Tail(q) \in Seq(ToServer)
    BY <1>2, Shifted
  <2>2. Count(Tail(q), ChunkType, 1, Len(q) - 1) + (IF q[1].type \in ChunkType THEN 1 ELSE 0)
          <= Count(q, ChunkType, 1, Len(q))
    <3>1. 1 \in Nat \ {0}
      OBVIOUS
    <3> QED
      BY ONLY q \in Seq(ToServer), <1>2, <2>1, <3>1, CountTail
  <2>3. Total(Tail(q), p) = Count(p, Reply, 1, Len(p)) + Count(Tail(q), ChunkType, 1, Len(q) - 1)
    BY <2>1 DEF Total
  <2>4. /\ Count(Tail(q), ChunkType, 1, Len(q) - 1) \in Nat /\ Count(p, Reply, 1, Len(p)) \in Nat
        /\ Count(q, ChunkType, 1, Len(q)) \in Nat
    BY <2>1, TotalNat
  <2>5. Chunk(q[1]) <=> q[1].type \in ChunkType
    BY ChunkIs
  <2> QED
    BY <2>2, <2>3, <2>4, <2>5 DEF Total
<1> QED
  BY <1>1, <1>2

LEMMA TotalAppend ==
  ASSUME NEW q \in Seq(ToServer), NEW p \in Seq(ToClient)
  PROVE  /\ \A m \in ToClient : Total(q, Append(p, m))
                                  = Total(q, p) + IF m.type \in Reply THEN 1 ELSE 0
         /\ \A m \in ToServer : Total(Append(q, m), p)
                                  = Total(q, p) + IF Chunk(m) THEN 1 ELSE 0
<1>1. /\ Count(p, Reply, 1, Len(p)) \in Nat /\ Count(q, ChunkType, 1, Len(q)) \in Nat
      /\ Len(p) \in Nat /\ Len(q) \in Nat /\ 1 <= Len(p) + 1 /\ 1 <= Len(q) + 1
  BY TotalNat
<1>2. ASSUME NEW m \in ToClient
      PROVE  Total(q, Append(p, m)) = Total(q, p) + IF m.type \in Reply THEN 1 ELSE 0
  <2>1. Len(Append(p, m)) = Len(p) + 1
    BY Appended
  <2>2. Count(Append(p, m), Reply, 1, Len(p) + 1)
          = Count(p, Reply, 1, Len(p)) + IF m.type \in Reply THEN 1 ELSE 0
    BY <1>1, CountAppend
  <2> QED
    BY <1>1, <2>1, <2>2 DEF Total
<1>3. ASSUME NEW m \in ToServer
      PROVE  Total(Append(q, m), p) = Total(q, p) + IF Chunk(m) THEN 1 ELSE 0
  <2>1. Len(Append(q, m)) = Len(q) + 1
    BY Appended
  <2>2. Count(Append(q, m), ChunkType, 1, Len(q) + 1)
          = Count(q, ChunkType, 1, Len(q)) + IF m.type \in ChunkType THEN 1 ELSE 0
    BY <1>1, CountAppend
  <2> QED
    BY <1>1, <2>1, <2>2, ChunkIs DEF Total
<1> QED
  BY <1>2, <1>3

\* What becomes of this as frames come and go.
LEMMA LooseMore ==
  ASSUME NEW q \in Seq(ToServer), NEW p \in Seq(ToClient), NEW o, NEW r, NEW x \in Int,
         NEW y \in Int, x <= y, Loose(q, p, o, r, x)
  PROVE  Loose(q, p, o, r, y)
<1>1. Total(q, p) \in Nat
  BY TotalNat
<1> QED
  BY <1>1 DEF Loose

LEMMA LooseRead ==
  ASSUME NEW q \in Seq(ToServer), NEW p \in Seq(ToClient), NEW o, NEW r, NEW x \in Int,
         Loose(q, p, o, r, x), p # <<>>
  PROVE  /\ Loose(q, Tail(p), o, r, x)
         /\ p[1].type \in Reply => Loose(q, Tail(p), o, r, x - 1) /\ ~ (\E n : IsFor(p[1], n))
<1>1. Tail(p) \in Seq(ToClient) /\ Len(Tail(p)) = Len(p) - 1 /\ Len(p) \in Nat \ {0}
  BY Shifted
<1>2. Total(q, p) \in Nat /\ Total(q, Tail(p)) \in Nat
  BY <1>1, TotalNat
<1>3. Total(q, Tail(p)) + (IF p[1].type \in Reply THEN 1 ELSE 0) <= Total(q, p)
  BY TotalTail
<1>4. Refused(Tail(p), 1, Len(p) - 1)
  <2>1. Refused(p, 1 + 1, Len(p)) /\ Len(p) \in 0 .. Len(p)
    BY <1>1 DEF Loose, Refused
  <2> QED
    BY <2>1, RefusedTail
<1>5. p[1].type \in Reply => ~ (\E n : IsFor(p[1], n))
  BY <1>1 DEF Loose, Refused, IsFor
<1> QED
  BY <1>1, <1>2, <1>3, <1>4, <1>5 DEF Loose

LEMMA LooseAnswered ==
  ASSUME NEW q \in Seq(ToServer), NEW p \in Seq(ToClient), NEW o, NEW r, NEW x \in Int,
         Loose(q, p, o, r, x), NEW m \in ToClient, NEW y \in Int,
         IF m.type \in Reply THEN m.type = "recv_err_msg" /\ x < y ELSE x <= y
  PROVE  Loose(q, Append(p, m), o, r, y)
<1>1. Total(q, Append(p, m)) = Total(q, p) + IF m.type \in Reply THEN 1 ELSE 0
  BY TotalAppend
<1>2. Total(q, p) \in Nat /\ Len(Append(p, m)) = Len(p) + 1
  BY TotalNat, Appended
<1>3. Refused(Append(p, m), 1, Len(p) + 1)
  BY RefusedAppend DEF Loose
<1> QED
  BY <1>1, <1>2, <1>3 DEF Loose

LEMMA LooseTaken ==
  ASSUME NEW q \in Seq(ToServer), NEW p \in Seq(ToClient), NEW o, NEW o2,
         NEW r \in Nat, NEW r2 \in Nat, NEW x \in Int, Loose(q, p, o, r, x), q # <<>>,
         Name(q[1]) \/ (o2 => o /\ r <= r2)
  PROVE  Loose(Tail(q), p, o2, r2, IF Chunk(q[1]) THEN x - 1 ELSE x)
<1>1. Tail(q) \in Seq(ToServer) /\ Len(Tail(q)) = Len(q) - 1 /\ Len(q) \in Nat \ {0}
      /\ Len(q) - 1 \in 0 .. Len(q) - 1 /\ Len(q) - 1 + 1 = Len(q)
  BY Shifted
<1>2. Total(q, p) \in Nat /\ Total(Tail(q), p) \in Nat
  BY <1>1, TotalNat
<1>3. Total(Tail(q), p) + (IF Chunk(q[1]) THEN 1 ELSE 0) <= Total(q, p)
  BY TotalTail
<1>4. Spent(q, o, r, Len(q) - 1 + 1)
  BY <1>1 DEF Loose
<1>5. Spent(Tail(q), o2, r2, Len(q) - 1)
  BY <1>1, <1>4, SpentTail
<1> QED
  BY <1>1, <1>2, <1>3, <1>5 DEF Loose

LEMMA LooseSent ==
  ASSUME NEW q \in Seq(ToServer), NEW p \in Seq(ToClient), NEW o, NEW r, NEW x \in Int,
         Loose(q, p, o, r, x), NEW m \in ToServer, NEW y \in Int,
         IF Chunk(m) THEN (\A j \in 1 .. Len(q) : ~ Name(q[j])) /\ (o => m.seq < r) /\ x < y
         ELSE x <= y
  PROVE  Loose(Append(q, m), p, o, r, y)
<1>1. Total(Append(q, m), p) = Total(q, p) + IF Chunk(m) THEN 1 ELSE 0
  BY TotalAppend
<1>2. Total(q, p) \in Nat /\ Len(Append(q, m)) = Len(q) + 1
  BY TotalNat, Appended
<1>3. Spent(Append(q, m), o, r, Len(q) + 1)
  BY SpentNew DEF Loose
<1> QED
  BY <1>1, <1>2, <1>3 DEF Loose

\* A chunk of no use is not taken.
LEMMA LooseRefused ==
  ASSUME NEW q \in Seq(ToServer), NEW p, NEW o, NEW r \in Nat, NEW x,
         Loose(q, p, o, r, x), q # <<>>, Chunk(q[1])
  PROVE  o => q[1].seq < r /\ q[1].seq # r
<1>1. 1 \in 1 .. Len(q) /\ q[1] \in ToServer
  BY Shifted
<1> QED
  BY <1>1 DEF Loose, Spent, ToServer

-----------------------------------------------------------------------------
(* The chunk that is under way. Of chunk n, sent t + 1 - u times (or with  *)
(* u = 1, about to be sent once more), one copy will be taken: the one at  *)
(* place i of q; or was taken: place j of p says so. What comes before it  *)
(* is refused, and each of those took a mishap; those after it are copies. *)

ComingAt(q, p, o, r, u, n, t, T, i) ==
  /\ \A k \in i .. Len(q) : Chunk(q[k]) /\ q[k].seq = n
  /\ Ready(q, o, r, i, n) /\ Spent(q, o, r, i - 1) /\ Refused(p, 1, Len(p))
  /\ t + Count(p, Reply, 1, Len(p)) + Count(q, ChunkType, 1, i - 1) <= T
  /\ Len(q) - i + u <= t
TakenAt(q, p, o, r, u, n, t, T, j) ==
  /\ IsFor(p[j], n) /\ Refused(p, 1, j - 1) /\ Refused(p, j + 1, Len(p))
  /\ Spent(q, o, r, Len(q)) /\ Ready(q, o, r, Len(q) + 1, n + 1)
  /\ t + Count(p, Reply, 1, j - 1) <= T
  /\ Count(p, Reply, j + 1, Len(p)) + Count(q, ChunkType, 1, Len(q)) + u <= t

LEMMA ComingNat ==
  ASSUME NEW q \in Seq(ToServer), NEW p \in Seq(ToClient), NEW i \in 1 .. Len(q)
  PROVE  /\ Count(p, Reply, 1, Len(p)) \in Nat /\ Count(q, ChunkType, 1, i - 1) \in Nat
         /\ Len(q) \in Nat \ {0} /\ Len(p) \in Nat /\ i \in Nat
<1>1. Len(q) \in Nat \ {0} /\ i \in Nat /\ i - 1 \in Int /\ 1 \in Int
  OBVIOUS
<1> QED
  BY <1>1, TotalNat, CountNat

\* The client reads an answer, or what is none.
LEMMA ComingRead ==
  ASSUME NEW q \in Seq(ToServer), NEW p \in Seq(ToClient), NEW o, NEW r, NEW n,
         NEW u \in {0, 1}, NEW t \in Nat, NEW T \in Nat, NEW i \in 1 .. Len(q),
         ComingAt(q, p, o, r, u, n, t, T, i), p # <<>>
  PROVE  /\ ComingAt(q, Tail(p), o, r, u, n, t, T, i)
         /\ p[1].type \in Reply => /\ ~ IsFor(p[1], n) /\ t + 1 <= T
                                   /\ u = 0 => ComingAt(q, Tail(p), o, r, 1, n, t + 1, T, i)
<1>1. Tail(p) \in Seq(ToClient) /\ Len(Tail(p)) = Len(p) - 1 /\ Len(p) \in Nat \ {0}
      /\ Len(p) \in 0 .. Len(p) /\ Len(p) >= 1
  BY Shifted
<1>2. Count(Tail(p), Reply, 1, Len(p) - 1) + (IF p[1].type \in Reply THEN 1 ELSE 0)
        <= Count(p, Reply, 1, Len(p))
  BY <1>1, CountTail
<1>3. Count(Tail(p), Reply, 1, Len(p) - 1) \in Nat /\ Count(p, Reply, 1, Len(p)) \in Nat
      /\ Count(q, ChunkType, 1, i - 1) \in Nat /\ Len(q) \in Nat /\ i \in Nat
  <2>1. Count(Tail(p), Reply, 1, Len(Tail(p))) \in Nat
    BY <1>1, ComingNat
  <2> QED
    BY <1>1, <2>1, ComingNat
<1>4. Refused(Tail(p), 1, Len(p) - 1) /\ (p[1].type \in Reply => ~ IsFor(p[1], n))
  <2>1. Refused(p, 1 + 1, Len(p)) /\ 1 \in 1 .. Len(p)
    BY <1>1 DEF ComingAt, Refused
  <2>2. Refused(Tail(p), 1, Len(p) - 1)
    BY <1>1, <2>1, RefusedTail
  <2> QED
    BY <2>1, <2>2 DEF ComingAt, Refused, IsFor
<1>5. PICK c \in Nat, c2 \in Nat, d \in Nat :
        /\ c = Count(p, Reply, 1, Len(p)) /\ c2 = Count(Tail(p), Reply, 1, Len(p) - 1)
        /\ d = Count(q, ChunkType, 1, i - 1)
  BY <1>3
<1>6. c2 + (IF p[1].type \in Reply THEN 1 ELSE 0) <= c /\ t + c + d <= T
      /\ Len(q) - i + u <= t
  BY <1>2, <1>5 DEF ComingAt
<1>7. /\ t + c2 + d <= T
      /\ p[1].type \in Reply => t + 1 <= T /\ t + 1 + c2 + d <= T
      /\ u = 0 => Len(q) - i + 1 <= t + 1
  <2>1. PICK x \in {0, 1} : /\ x = IF p[1].type \in Reply THEN 1 ELSE 0
                            /\ c2 + x <= c /\ (p[1].type \in Reply => x = 1)
    BY <1>6
  <2>2. t + c2 + d <= T /\ (x = 1 => t + 1 <= T /\ t + 1 + c2 + d <= T)
    BY <1>6, <2>1
  <2>3. PICK l \in Int : l = Len(q) - i
    BY <1>3
  <2>4. l + u <= t
    BY <1>6, <2>3
  <2>5. u = 0 => l + 1 <= t + 1
    BY <2>4
  <2> QED
    BY <2>1, <2>2, <2>3, <2>5
<1> QED
  BY <1>1, <1>4, <1>5, <1>6, <1>7 DEF ComingAt

LEMMA ComingAnswered ==
  ASSUME NEW q \in Seq(ToServer), NEW p \in Seq(ToClient), NEW o, NEW r, NEW n,
         NEW u, NEW t, NEW T, NEW i,
         ComingAt(q, p, o, r, u, n, t, T, i), NEW m \in ToClient, m.type \notin Reply
  PROVE  ComingAt(q, Append(p, m), o, r, u, n, t, T, i)
<1>1. Len(Append(p, m)) = Len(p) + 1 /\ Len(p) \in Nat /\ 1 <= Len(p) + 1
      /\ Count(p, Reply, 1, Len(p)) \in Nat
  BY Appended, TotalNat
<1>2. Count(Append(p, m), Reply, 1, Len(p) + 1)
        = Count(p, Reply, 1, Len(p)) + IF m.type \in Reply THEN 1 ELSE 0
  BY <1>1, CountAppend
<1>3. Count(Append(p, m), Reply, 1, Len(p) + 1) = Count(p, Reply, 1, Len(p))
  BY <1>1, <1>2
<1>4. Refused(Append(p, m), 1, Len(p) + 1)
  BY RefusedAppend DEF ComingAt
<1> QED
  BY <1>1, <1>3, <1>4 DEF ComingAt

\* The client sends one more copy.
LEMMA ComingSent ==
  ASSUME NEW q \in Seq(ToServer), NEW p \in Seq(ToClient), NEW o, NEW r, NEW n,
         NEW t \in Nat, NEW T, NEW i \in 1 .. Len(q),
         ComingAt(q, p, o, r, 1, n, t, T, i), NEW m \in ToServer, Chunk(m), m.seq = n
  PROVE  ComingAt(Append(q, m), p, o, r, 0, n, t, T, i)
<1>1. PICK q2 : q2 = Append(q, m)
  OBVIOUS
<1>2. Len(q2) = Len(q) + 1 /\ Len(q) \in Nat /\ q2[Len(q) + 1] = m
      /\ \A k \in 1 .. Len(q) : q2[k] = q[k]
  BY <1>1, Appended
<1>3. \A k \in i .. Len(q) + 1 : Chunk(q2[k]) /\ q2[k].seq = n
  <2>1. \A k \in i .. Len(q) + 1 : (k \in i .. Len(q) /\ k \in 1 .. Len(q)) \/ k = Len(q) + 1
    BY <1>2
  <2> QED
    BY <1>2, <2>1 DEF ComingAt
<1>4. i \in 1 .. Len(q) + 1 /\ i - 1 \in 0 .. Len(q)
  BY <1>2
<1>5. Ready(q2, o, r, i, n)
  BY <1>1, <1>4, ReadyOn DEF ComingAt
<1>6. Spent(q2, o, r, i - 1)
  BY <1>1, <1>4, SpentOn DEF ComingAt
<1>7. Count(q2, ChunkType, 1, i - 1) = Count(q, ChunkType, 1, i - 1)
  <2>1. PICK h \in 0 .. Len(q) : h = i - 1
    BY <1>4
  <2>2. Count(Append(q, m), ChunkType, 1, h) = Count(q, ChunkType, 1, h)
    BY CountEarlier
  <2> QED
    BY <1>1, <2>1, <2>2
<1>8. Len(q) + 1 - i + 0 <= t
  BY <1>2 DEF ComingAt
<1>9. t + Count(p, Reply, 1, Len(p)) + Count(q2, ChunkType, 1, i - 1) <= T
      /\ Refused(p, 1, Len(p))
  BY <1>7 DEF ComingAt
<1>10. Len(q2) - i + 0 <= t /\ \A k \in i .. Len(q2) : Chunk(q2[k]) /\ q2[k].seq = n
  BY <1>2, <1>3, <1>8
<1>11. ComingAt(q2, p, o, r, 0, n, t, T, i)
  BY <1>5, <1>6, <1>9, <1>10 DEF ComingAt
<1> QED
  BY <1>1, <1>11

\* The types of what is said about the queues.
Queues(q, p, r, u, n, t, T) ==
  /\ q \in Seq(ToServer) /\ q # <<>> /\ p \in Seq(ToClient) /\ r \in Nat
  /\ u \in {0, 1} /\ n \in Nat \ {0} /\ t \in Nat /\ T \in Nat

\* What becomes of the number r the server expects, while a file is open (o), when
\* it deals with m; and what it answers if it does not take m.
Passes(m, o, r, o2, r2) ==
  /\ Name(m) => o2 /\ r2 = 1
  /\ Name(m) \/ (End(m) /\ r2 = r /\ (o2 => o)) \/ ((o2 <=> o) /\ r2 = r)
Declines(m, p, p2) ==
  p2 = p \/ (Chunk(m) /\ \E s \in ToClient : s.type = "recv_err_msg" /\ p2 = Append(p, s))
Foreign(m, o, r) == ~ Name(m) /\ ~ End(m) /\ (Chunk(m) => o /\ m.seq # r)

\* The server deals with what is before it.
LEMMA ComingNearer ==
  ASSUME NEW q, NEW p, NEW p2, NEW o, NEW o2, NEW r, NEW r2 \in Nat, NEW n, NEW u, NEW t, NEW T,
         NEW i \in 2 .. Len(q), ComingAt(q, p, o, r, u, n, t, T, i),
         Queues(q, p, r, u, n, t, T), Passes(q[1], o, r, o2, r2), Declines(q[1], p, p2)
  PROVE  ComingAt(Tail(q), p2, o2, r2, u, n, t, T, i - 1)
<1>0. /\ q \in Seq(ToServer) /\ q # <<>> /\ p \in Seq(ToClient) /\ r \in Nat
      /\ u \in {0, 1} /\ n \in Nat \ {0} /\ t \in Nat /\ T \in Nat
  BY DEF Queues
<1> USE <1>0
<1>1. PICK q2 : q2 = Tail(q)
  OBVIOUS
<1>2. q2 \in Seq(ToServer) /\ Len(q2) = Len(q) - 1 /\ Len(q) \in Nat \ {0}
      /\ \A k \in 1 .. Len(q) - 1 : q2[k] = q[k + 1]
  BY <1>1, Shifted
<1>3. PICK h : h = i - 1
  OBVIOUS
<1>4. h \in 1 .. Len(q) /\ h + 1 = i /\ h \in 1 .. Len(q2) /\ i \in 0 .. Len(q) /\ h \in 0 .. Len(q)
      /\ h - 1 \in 0 .. Len(q) - 1 /\ h - 1 + 1 = i - 1 /\ h >= 1 /\ h \in Nat /\ i \in Nat
  BY <1>2, <1>3
<1>5. \A k \in h .. Len(q2) : Chunk(q2[k]) /\ q2[k].seq = n
  <2>1. \A k \in h .. Len(q2) : k \in 1 .. Len(q) - 1 /\ k + 1 \in i .. Len(q)
    BY <1>2, <1>4
  <2> QED
    BY <1>2, <2>1 DEF ComingAt
<1>6. Ready(q2, o2, r2, h, n)
  <2>1. Ready(q, o, r, h + 1, n)
    BY <1>4 DEF ComingAt
  <2>2. /\ Name(q[1]) => o2 /\ r2 = 1
        /\ Name(q[1]) \/ End(q[1]) \/ ((o2 <=> o) /\ r2 = r)
    BY DEF Passes
  <2> QED
    BY <1>1, <1>4, <2>1, <2>2, ReadyTail
<1>7. Spent(q2, o2, r2, h - 1)
  <2>1. Spent(q, o, r, h - 1 + 1)
    BY <1>4 DEF ComingAt
  <2>2. Name(q[1]) \/ (o2 => o /\ r <= r2)
    BY DEF Passes
  <2> QED
    BY <1>1, <1>4, <2>1, <2>2, SpentTail
<1>8. Count(q2, ChunkType, 1, h - 1) + (IF Chunk(q[1]) THEN 1 ELSE 0)
        <= Count(q, ChunkType, 1, i - 1)
  <2>1. Count(q2, ChunkType, 1, h - 1) + (IF q[1].type \in ChunkType THEN 1 ELSE 0)
          <= Count(q, ChunkType, 1, h)
    <3>1. 1 \in Nat \ {0} /\ h \in 0 .. Len(q) /\ h >= 1
      BY <1>4
    <3> QED
      BY <1>1, <3>1, CountTail
  <2> QED
    BY <1>3, <2>1, ChunkIs
<1>9. Count(q2, ChunkType, 1, h - 1) \in Nat /\ Count(q, ChunkType, 1, i - 1) \in Nat
      /\ Count(p, Reply, 1, Len(p)) \in Nat
  <2>1. h - 1 \in Int /\ i - 1 \in Int /\ Len(p) \in Int /\ 1 \in Int
    BY <1>4
  <2> QED
    BY ONLY <2>1, CountNat
<1>10. PICK c \in Nat, d \in Nat, d2 \in Nat :
         /\ c = Count(p, Reply, 1, Len(p)) /\ d2 = Count(q2, ChunkType, 1, h - 1)
         /\ d = Count(q, ChunkType, 1, i - 1)
  BY <1>9
<1>11. /\ d2 + (IF Chunk(q[1]) THEN 1 ELSE 0) <= d /\ t + c + d <= T /\ Len(q) - i + u <= t
  BY <1>8, <1>10 DEF ComingAt
<1>12. /\ t + c + d2 <= T /\ Len(q2) - h + u <= t
       /\ Chunk(q[1]) => t + (c + 1) + d2 <= T
  BY <1>2, <1>4, <1>11
<1>13. ComingAt(q2, p, o2, r2, u, n, t, T, h)
  BY <1>5, <1>6, <1>7, <1>10, <1>12 DEF ComingAt
<1>14. ASSUME NEW m \in ToClient, m.type = "recv_err_msg", Chunk(q[1])
       PROVE  ComingAt(q2, Append(p, m), o2, r2, u, n, t, T, h)
  <2>1. Len(Append(p, m)) = Len(p) + 1 /\ Len(p) \in Nat /\ 1 <= Len(p) + 1
    BY Appended
  <2>2. Count(Append(p, m), Reply, 1, Len(p) + 1)
          = Count(p, Reply, 1, Len(p)) + IF m.type \in Reply THEN 1 ELSE 0
    BY <2>1, CountAppend
  <2>3. Count(Append(p, m), Reply, 1, Len(p) + 1) = c + 1
    BY <1>10, <1>14, <2>2 DEF Reply
  <2>4. Refused(Append(p, m), 1, Len(p) + 1)
    BY <1>14, RefusedAppend DEF ComingAt
  <2> QED
    BY <1>5, <1>6, <1>7, <1>10, <1>12, <1>14, <2>1, <2>3, <2>4 DEF ComingAt
<1> QED
  BY <1>1, <1>3, <1>13, <1>14 DEF Declines

\* The server takes it.
LEMMA ComingArrived ==
  ASSUME NEW q, NEW p, NEW o, NEW r, NEW n, NEW u, NEW t, NEW T,
         ComingAt(q, p, o, r, u, n, t, T, 1), Queues(q, p, r, u, n, t, T),
         NEW m \in ToClient, IsFor(m, n)
  PROVE  /\ \A k \in 1 .. Len(q) : ~ Name(q[k])
         /\ TakenAt(Tail(q), Append(p, m), o, r + 1, u, n, t, T, Len(p) + 1)
<1>0. /\ q \in Seq(ToServer) /\ q # <<>> /\ p \in Seq(ToClient) /\ r \in Nat
      /\ u \in {0, 1} /\ n \in Nat \ {0} /\ t \in Nat /\ T \in Nat
  BY DEF Queues
<1> USE <1>0
<1>1. PICK q2 : q2 = Tail(q)
  OBVIOUS
<1>2. q2 \in Seq(ToServer) /\ Len(q2) = Len(q) - 1 /\ Len(q) \in Nat \ {0}
      /\ \A k \in 1 .. Len(q) - 1 : q2[k] = q[k + 1]
  BY <1>1, Shifted
<1>3. PICK p2 : p2 = Append(p, m)
  OBVIOUS
<1>4. p2 \in Seq(ToClient) /\ Len(p2) = Len(p) + 1 /\ p2[Len(p) + 1] = m /\ Len(p) \in Nat
      /\ Len(p) + 1 - 1 = Len(p)
  BY <1>3, Appended
<1>5. o /\ r = n
  BY DEF ComingAt, Ready
<1>6. 1 \in 1 .. Len(q) /\ \A k \in 1 .. Len(q) : /\ Chunk(q[k]) /\ q[k].seq = n
                                                 /\ ~ Name(q[k]) /\ ~ End(q[k])
  BY <1>2 DEF ComingAt, Chunk, Name, End
<1>7. \A k \in 1 .. Len(q2) : q2[k].seq = n /\ ~ Name(q2[k]) /\ ~ End(q2[k])
  <2>1. \A k \in 1 .. Len(q2) : k \in 1 .. Len(q) - 1 /\ k + 1 \in 1 .. Len(q)
    BY <1>2
  <2>2. \A k \in 1 .. Len(q2) : q2[k] = q[k + 1] /\ k + 1 \in 1 .. Len(q)
    BY <1>2, <2>1
  <2>3. \A k \in 1 .. Len(q) : q[k].seq = n /\ ~ Name(q[k]) /\ ~ End(q[k])
    BY <1>6
  <2> QED
    BY ONLY <2>2, <2>3
<1>8. Spent(q2, o, r + 1, Len(q2))
  <2>1. \A k \in 1 .. Len(q2) : \A j \in 1 .. k - 1 : j \in 1 .. Len(q2)
    BY <1>2
  <2>2. n < r + 1
    BY <1>5
  <2> QED
    BY <1>7, <2>1, <2>2 DEF Spent
<1>9. Ready(q2, o, r + 1, Len(q2) + 1, n + 1)
  <2>1. \A k \in 1 .. Len(q2) + 1 - 1 : k \in 1 .. Len(q2)
    BY <1>2
  <2> QED
    BY <1>5, <1>7, <2>1 DEF Ready
<1>10. Refused(p2, 1, Len(p)) /\ Refused(p2, Len(p) + 1 + 1, Len(p) + 1)
  <2>1. Refused(p2, 1, Len(p))
    BY <1>3, <1>4, RefusedAppend DEF ComingAt
  <2> QED
    BY <1>4, <2>1 DEF Refused
<1>11. Count(p2, Reply, 1, Len(p)) = Count(p, Reply, 1, Len(p))
  <2>1. 1 \in Nat \ {0} /\ Len(p) \in 0 .. Len(p)
    BY <1>4
  <2> QED
    BY <1>3, <2>1, CountEarlier
<1>12. Count(p2, Reply, Len(p) + 1 + 1, Len(p) + 1) = 0
  <2>1. Len(p) + 1 + 1 \in Int /\ Len(p) + 1 \in Int /\ Len(p) + 1 < Len(p) + 1 + 1
    BY <1>4
  <2> QED
    BY <2>1, CountNat
<1>13. Count(q2, ChunkType, 1, Len(q2)) \in Nat /\ Count(q2, ChunkType, 1, Len(q2)) <= Len(q2)
  <2>1. Len(q2) \in Int /\ 1 \in Int /\ (Len(q2) < 1 => Len(q2) = 0)
        /\ Len(q2) - 1 + 1 = Len(q2)
    BY <1>2
  <2> QED
    BY <2>1, CountNat
<1>14. /\ t + Count(p2, Reply, 1, Len(p)) <= T
       /\ 0 + Count(q2, ChunkType, 1, Len(q2)) + u <= t
  <2>1. Count(p, Reply, 1, Len(p)) \in Nat /\ Count(q, ChunkType, 1, 1 - 1) \in Nat
    BY <1>6, ComingNat
  <2>2. /\ t + Count(p, Reply, 1, Len(p)) + Count(q, ChunkType, 1, 1 - 1) <= T
        /\ Len(q) - 1 + u <= t
    BY DEF ComingAt
  <2> QED
    <3>1. PICK a \in Nat, b \in Nat, c \in Nat :
            /\ a = Count(p, Reply, 1, Len(p)) /\ b = Count(q, ChunkType, 1, 1 - 1)
            /\ c = Count(q2, ChunkType, 1, Len(q2))
      BY <1>6, <1>13, <2>1, ComingNat
    <3>2. t + a + b <= T /\ Len(q2) + u <= t /\ c <= Len(q2) /\ Len(q2) \in Nat
      BY <1>2, <1>13, <2>2, <3>1
    <3>3. t + a <= T /\ 0 + c + u <= t
      BY ONLY <3>2, a \in Nat, b \in Nat, c \in Nat, t \in Nat, T \in Nat, u \in {0, 1}
    <3> QED
      BY <1>11, <3>1, <3>3
<1>15. TakenAt(q2, p2, o, r + 1, u, n, t, T, Len(p) + 1)
  BY <1>4, <1>8, <1>9, <1>10, <1>12, <1>14 DEF TakenAt
<1> QED
  BY <1>1, <1>3, <1>6, <1>15

\* Or it is lost. Then the next copy will be taken, if there is one.
LEMMA ComingLost ==
  ASSUME NEW q \in Seq(ToServer), NEW p \in Seq(ToClient), NEW o, NEW r \in Nat, NEW n,
         NEW u \in {0, 1}, NEW t \in Nat, NEW T \in Nat, q # <<>>,
         ComingAt(q, p, o, r, u, n, t, T, 1)
  PROVE  \/ 1 \in 1 .. Len(Tail(q)) /\ ComingAt(Tail(q), p, o, r, u, n, t, T + 1, 1)
         \/ /\ Loose(Tail(q), p, o, r, (T + 1) - t - (1 - u))
            /\ Ready(Tail(q), o, r, Len(Tail(q)) + 1, n)
<1>1. PICK q2 : q2 = Tail(q)
  OBVIOUS
<1>2. q2 \in Seq(ToServer) /\ Len(q2) = Len(q) - 1 /\ Len(q) \in Nat \ {0}
      /\ \A k \in 1 .. Len(q) - 1 : q2[k] = q[k + 1]
  BY <1>1, Shifted
<1>3. o /\ r = n /\ Ready(q2, o, r, 1, n)
  BY DEF ComingAt, Ready
<1>4. Count(p, Reply, 1, Len(p)) \in Nat /\ Count(q, ChunkType, 1, 1 - 1) \in Nat
      /\ 1 \in 1 .. Len(q)
  <2>1. 1 \in 1 .. Len(q)
    BY <1>2
  <2> QED
    BY <2>1, ComingNat
<1>5. /\ t + Count(p, Reply, 1, Len(p)) + Count(q, ChunkType, 1, 1 - 1) <= T
      /\ Len(q) - 1 + u <= t /\ Refused(p, 1, Len(p))
  BY DEF ComingAt
<1>6. CASE Len(q) = 1
  <2>1. Len(q2) = 0
    BY <1>2, <1>6
  <2>2. Spent(q2, o, r, Len(q2)) /\ Ready(q2, o, r, Len(q2) + 1, n)
    <3>1. 1 .. Len(q2) = {} /\ Len(q2) + 1 = 1
      BY <2>1
    <3>2. Spent(q2, o, r, Len(q2))
      BY ONLY <3>1 DEF Spent
    <3> QED
      BY <1>3, <3>1, <3>2
  <2>3. Count(q2, ChunkType, 1, Len(q2)) = 0
    <3>1. Len(q2) \in Int /\ 1 \in Int /\ Len(q2) < 1
      BY <2>1
    <3> QED
      BY <3>1, CountNat
  <2>4. Total(q2, p) <= (T + 1) - t - (1 - u)
    BY <1>4, <1>5, <2>3 DEF Total
  <2> QED
    BY <1>1, <1>5, <2>2, <2>4 DEF Loose
<1>7. CASE Len(q) > 1
  <2>1. \A k \in 1 .. Len(q2) : Chunk(q2[k]) /\ q2[k].seq = n
    <3>1. \A k \in 1 .. Len(q2) : k \in 1 .. Len(q) - 1 /\ k + 1 \in 1 .. Len(q)
      BY <1>2
    <3> QED
      BY <1>2, <3>1 DEF ComingAt
  <2>2. Spent(q2, o, r, 1 - 1)
    BY DEF Spent
  <2>3. Count(q2, ChunkType, 1, 1 - 1) = 0
    <3>1. 1 - 1 \in Int /\ 1 \in Int /\ 1 - 1 < 1
      OBVIOUS
    <3> QED
      BY <3>1, CountNat
  <2>4. /\ t + Count(p, Reply, 1, Len(p)) + Count(q2, ChunkType, 1, 1 - 1) <= T + 1
        /\ Len(q2) - 1 + u <= t /\ 1 \in 1 .. Len(q2)
    BY <1>2, <1>4, <1>5, <1>7, <2>3
  <2> QED
    BY <1>1, <1>3, <1>5, <2>1, <2>2, <2>4 DEF ComingAt
<1> QED
  BY <1>2, <1>6, <1>7

\* The client reads another answer, or its own, or this is lost.
LEMMA TakenNat ==
  ASSUME NEW q \in Seq(ToServer), NEW p \in Seq(ToClient), NEW j \in 1 .. Len(p)
  PROVE  /\ Count(p, Reply, 1, j - 1) \in Nat /\ Count(p, Reply, j + 1, Len(p)) \in Nat
         /\ Count(q, ChunkType, 1, Len(q)) \in Nat
         /\ Len(q) \in Nat /\ Len(p) \in Nat \ {0} /\ j \in Nat \ {0}
<1>1. Len(p) \in Nat \ {0} /\ j \in Nat \ {0} /\ j - 1 \in Int /\ j + 1 \in Int /\ 1 \in Int
      /\ Len(p) \in Int
  OBVIOUS
<1>2. Count(p, Reply, 1, j - 1) \in Nat /\ Count(p, Reply, j + 1, Len(p)) \in Nat
  BY <1>1, CountNat
<1> QED
  BY <1>1, <1>2, TotalNat

LEMMA TakenRead ==
  ASSUME NEW q \in Seq(ToServer), NEW p \in Seq(ToClient), NEW o, NEW r, NEW n,
         NEW u \in {0, 1}, NEW t \in Nat, NEW T \in Nat, NEW j \in 2 .. Len(p),
         TakenAt(q, p, o, r, u, n, t, T, j), p # <<>>
  PROVE  /\ TakenAt(q, Tail(p), o, r, u, n, t, T, j - 1)
         /\ p[1].type \in Reply => /\ ~ IsFor(p[1], n) /\ t + 1 <= T
                                   /\ u = 0 => TakenAt(q, Tail(p), o, r, 1, n, t + 1, T, j - 1)
<1>1. PICK p2 : p2 = Tail(p)
  OBVIOUS
<1>2. p2 \in Seq(ToClient) /\ Len(p2) = Len(p) - 1 /\ Len(p) \in Nat \ {0}
      /\ \A k \in 1 .. Len(p) - 1 : p2[k] = p[k + 1]
  BY <1>1, Shifted
<1>3. PICK h : h = j - 1
  OBVIOUS
<1>4. h \in 1 .. Len(p2) /\ h + 1 = j /\ h \in 0 .. Len(p) /\ h >= 1 /\ h \in Nat \ {0}
      /\ j \in 1 .. Len(p) /\ h \in 1 .. Len(p) - 1 /\ h + 1 \in Nat \ {0} /\ Len(p) \in 0 .. Len(p)
      /\ h + 1 + 1 = j + 1 /\ 1 \in Nat \ {0}
  BY <1>2, <1>3
<1>5. /\ Count(p2, Reply, 1, h - 1) + (IF p[1].type \in Reply THEN 1 ELSE 0)
           <= Count(p, Reply, 1, h)
      /\ Count(p2, Reply, h + 1, Len(p) - 1) <= Count(p, Reply, h + 1 + 1, Len(p))
  <2>1. Count(p2, Reply, 1, h - 1) + (IF p[1].type \in Reply THEN 1 ELSE 0)
           <= Count(p, Reply, 1, h)
    BY <1>1, <1>4, CountTail
  <2>2. Count(p2, Reply, h + 1, Len(p) - 1) <= Count(p, Reply, h + 1 + 1, Len(p))
    BY <1>1, <1>4, CountTail
  <2> QED
    BY <2>1, <2>2
<1>6. /\ Count(p2, Reply, 1, h - 1) \in Nat /\ Count(p2, Reply, h + 1, Len(p2)) \in Nat
      /\ Count(p, Reply, 1, j - 1) \in Nat /\ Count(p, Reply, j + 1, Len(p)) \in Nat
      /\ Count(q, ChunkType, 1, Len(q)) \in Nat
  BY <1>2, <1>4, TakenNat
<1>7. PICK a \in Nat, a2 \in Nat, b \in Nat, b2 \in Nat, c \in Nat :
        /\ a = Count(p, Reply, 1, j - 1) /\ a2 = Count(p2, Reply, 1, h - 1)
        /\ b = Count(p, Reply, j + 1, Len(p)) /\ b2 = Count(p2, Reply, h + 1, Len(p2))
        /\ c = Count(q, ChunkType, 1, Len(q))
  BY <1>6
<1>8. PICK x \in {0, 1} : /\ x = IF p[1].type \in Reply THEN 1 ELSE 0
                          /\ (p[1].type \in Reply => x = 1)
  OBVIOUS
<1>9. a2 + x <= a /\ b2 <= b /\ t + a <= T /\ b + c + u <= t
  <2>1. a2 + x <= a
    BY <1>3, <1>5, <1>7, <1>8
  <2>2. b2 <= b
    BY <1>2, <1>4, <1>5, <1>7
  <2>3. t + a <= T /\ b + c + u <= t
    BY <1>7 DEF TakenAt
  <2> QED
    BY <2>1, <2>2, <2>3
<1>10. /\ t + a2 <= T /\ b2 + c + u <= t
       /\ x = 1 => t + 1 <= T /\ t + 1 + a2 <= T
       /\ u = 0 => b2 + c + 1 <= t + 1
  BY <1>9
<1>11. /\ IsFor(p2[h], n) /\ Refused(p2, 1, h - 1) /\ Refused(p2, h + 1, Len(p2))
       /\ p[1].type \in Reply => ~ IsFor(p[1], n)
  <2>1. p2[h] = p[j]
    BY <1>2, <1>4
  <2>2. Refused(p, 1 + 1, h) /\ Refused(p, h + 1 + 1, Len(p))
    <3>1. /\ \A k \in 1 + 1 .. h : k \in 1 .. j - 1
          /\ \A k \in h + 1 + 1 .. Len(p) : k \in j + 1 .. Len(p)
      BY <1>4
    <3> QED
      BY <3>1 DEF TakenAt, Refused
  <2>3. Refused(p2, 1, h - 1)
    BY <1>1, <1>4, <2>2, RefusedTail
  <2>4. Refused(p2, h + 1, Len(p) - 1)
    BY <1>1, <1>4, <2>2, RefusedTail
  <2>5. 1 \in 1 .. j - 1
    BY <1>4
  <2>6. p[1].type \in Reply => p[1].type = "recv_err_msg"
    BY <2>5 DEF TakenAt, Refused
  <2> QED
    BY <1>2, <2>1, <2>3, <2>4, <2>6 DEF TakenAt, IsFor
<1>12. Spent(q, o, r, Len(q)) /\ Ready(q, o, r, Len(q) + 1, n + 1)
  BY DEF TakenAt
<1>13. TakenAt(q, p2, o, r, u, n, t, T, h)
  BY <1>7, <1>10, <1>11, <1>12 DEF TakenAt
<1>14. ASSUME x = 1, u = 0
       PROVE  TakenAt(q, p2, o, r, 1, n, t + 1, T, h)
  BY <1>7, <1>10, <1>11, <1>12, <1>14 DEF TakenAt
<1> QED
  BY <1>1, <1>3, <1>8, <1>10, <1>11, <1>13, <1>14

LEMMA TakenTold ==
  ASSUME NEW q \in Seq(ToServer), NEW p \in Seq(ToClient), NEW o, NEW r, NEW n,
         NEW u \in {0, 1}, NEW t \in Nat, NEW T \in Nat,
         TakenAt(q, p, o, r, u, n, t, T, 1), p # <<>>
  PROVE  /\ IsFor(p[1], n) /\ t <= T
         /\ Loose(q, Tail(p), o, r, t - u) /\ Ready(q, o, r, Len(q) + 1, n + 1)
<1>1. PICK p2 : p2 = Tail(p)
  OBVIOUS
<1>2. p2 \in Seq(ToClient) /\ Len(p2) = Len(p) - 1 /\ Len(p) \in Nat \ {0}
      /\ 1 \in 1 .. Len(p) /\ Len(p) \in 0 .. Len(p) /\ 1 \in Nat \ {0} /\ 1 - 1 \in Int
  BY <1>1, Shifted
<1>3. Refused(p2, 1, Len(p2))
  <2>1. Refused(p, 1 + 1, Len(p))
    BY DEF TakenAt
  <2> QED
    BY <1>1, <1>2, <2>1, RefusedTail
<1>4. Count(p2, Reply, 1, Len(p) - 1) <= Count(p, Reply, 1 + 1, Len(p))
  BY <1>1, <1>2, CountTail
<1>5. /\ Count(p, Reply, 1, 1 - 1) \in Nat /\ Count(p, Reply, 1 + 1, Len(p)) \in Nat
      /\ Count(q, ChunkType, 1, Len(q)) \in Nat /\ Count(p2, Reply, 1, Len(p2)) \in Nat
  BY <1>2, TakenNat, TotalNat
<1>6. /\ t + Count(p, Reply, 1, 1 - 1) <= T
      /\ Count(p, Reply, 1 + 1, Len(p)) + Count(q, ChunkType, 1, Len(q)) + u <= t
  BY DEF TakenAt
<1>7. t <= T /\ Total(q, p2) <= t - u
  <2>1. PICK a \in Nat, b \in Nat, c \in Nat, d \in Nat :
          /\ a = Count(p, Reply, 1, 1 - 1) /\ b = Count(p, Reply, 1 + 1, Len(p))
          /\ c = Count(q, ChunkType, 1, Len(q)) /\ d = Count(p2, Reply, 1, Len(p2))
    BY <1>5
  <2>2. t + a <= T /\ b + c + u <= t /\ d <= b
    BY <1>2, <1>4, <1>6, <2>1
  <2>3. t <= T /\ d + c <= t - u
    BY <2>2
  <2> QED
    BY <2>1, <2>3 DEF Total
<1> QED
  BY <1>1, <1>3, <1>7 DEF TakenAt, Loose

LEMMA TakenAnswered ==
  ASSUME NEW q \in Seq(ToServer), NEW p \in Seq(ToClient), NEW o, NEW r, NEW n,
         NEW u, NEW t, NEW T, NEW j \in 1 .. Len(p),
         TakenAt(q, p, o, r, u, n, t, T, j), NEW m \in ToClient, m.type \notin Reply
  PROVE  TakenAt(q, Append(p, m), o, r, u, n, t, T, j)
<1>1. PICK p2 : p2 = Append(p, m)
  OBVIOUS
<1>2. Len(p2) = Len(p) + 1 /\ Len(p) \in Nat /\ \A k \in 1 .. Len(p) : p2[k] = p[k]
  BY <1>1, Appended
<1>3. j - 1 \in 0 .. Len(p) /\ j + 1 \in Nat \ {0} /\ j + 1 <= Len(p) + 1 /\ 1 \in Nat \ {0}
  BY <1>2
<1>4. Count(p2, Reply, 1, j - 1) = Count(p, Reply, 1, j - 1)
  BY <1>1, <1>3, CountEarlier
<1>5. Count(p2, Reply, j + 1, Len(p) + 1) = Count(p, Reply, j + 1, Len(p))
  <2>1. Count(p2, Reply, j + 1, Len(p) + 1)
          = Count(p, Reply, j + 1, Len(p)) + IF m.type \in Reply THEN 1 ELSE 0
    BY <1>1, <1>3, CountAppend
  <2>2. Count(p, Reply, j + 1, Len(p)) \in Nat
    BY TakenNat
  <2> QED
    BY <2>1, <2>2
<1>6. Refused(p2, 1, j - 1) /\ Refused(p2, j + 1, Len(p) + 1)
  <2>1. Refused(p2, 1, j - 1)
    BY <1>1, <1>3, RefusedAppend DEF TakenAt
  <2>2. Refused(p2, j + 1, Len(p) + 1)
    BY <1>1, <1>3, RefusedAppend DEF TakenAt
  <2> QED
    BY <2>1, <2>2
<1> QED
  BY <1>1, <1>2, <1>4, <1>5, <1>6 DEF TakenAt

LEMMA TakenSent ==
  ASSUME NEW q \in Seq(ToServer), NEW p \in Seq(ToClient), NEW o, NEW r, NEW n \in Nat \ {0},
         NEW t \in Nat, NEW T, NEW j \in 1 .. Len(p),
         TakenAt(q, p, o, r, 1, n, t, T, j), NEW m \in ToServer, Chunk(m), m.seq = n
  PROVE  TakenAt(Append(q, m), p, o, r, 0, n, t, T, j)
<1>1. PICK q2 : q2 = Append(q, m)
  OBVIOUS
<1>2. q2 \in Seq(ToServer) /\ Len(q2) = Len(q) + 1 /\ Len(q) \in Nat
  BY <1>1, Appended
<1>3. PICK n2 \in Nat : n2 = n + 1 /\ n2 > 1 /\ n < n2
  OBVIOUS
<1>4. /\ o /\ r = n2 /\ \A k \in 1 .. Len(q) : ~ Name(q[k])
      /\ Ready(q2, o, r, Len(q) + 2, n2)
  BY <1>1, <1>3, ReadyCopy DEF TakenAt
<1>5. Spent(q2, o, r, Len(q) + 1)
  BY <1>1, <1>3, <1>4, SpentNew DEF TakenAt
<1>6. Count(q2, ChunkType, 1, Len(q) + 1) = Count(q, ChunkType, 1, Len(q)) + 1
  <2>1. 1 \in Nat \ {0} /\ 1 <= Len(q) + 1 /\ m.type \in ChunkType
    BY <1>2, ChunkIs
  <2> QED
    BY <1>1, <2>1, CountAppend
<1>7. /\ Count(p, Reply, j + 1, Len(p)) \in Nat /\ Count(q, ChunkType, 1, Len(q)) \in Nat
  BY TakenNat
<1>8. Count(p, Reply, j + 1, Len(p)) + Count(q, ChunkType, 1, Len(q)) + 1 <= t
  BY DEF TakenAt
<1>9. Count(p, Reply, j + 1, Len(p)) + Count(q2, ChunkType, 1, Len(q) + 1) + 0 <= t
  BY <1>6, <1>7, <1>8
<1>10. Len(q) + 2 = Len(q2) + 1
  BY <1>2
<1> QED
  BY <1>1, <1>2, <1>3, <1>4, <1>5, <1>9, <1>10 DEF TakenAt

\* The server misses a copy, or refuses it.
LEMMA TakenCopies ==
  ASSUME NEW q, NEW p, NEW p2, NEW o, NEW r, NEW n, NEW u, NEW t, NEW T, NEW j \in 1 .. Len(p),
         TakenAt(q, p, o, r, u, n, t, T, j), Queues(q, p, r, u, n, t, T),
         Declines(q[1], p, p2)
  PROVE  Foreign(q[1], o, r) /\ TakenAt(Tail(q), p2, o, r, u, n, t, T, j)
<1>0. /\ q \in Seq(ToServer) /\ q # <<>> /\ p \in Seq(ToClient) /\ r \in Nat
      /\ u \in {0, 1} /\ n \in Nat \ {0} /\ t \in Nat /\ T \in Nat
  BY DEF Queues
<1> USE <1>0
<1>1. PICK q2 : q2 = Tail(q)
  OBVIOUS
<1>2. q2 \in Seq(ToServer) /\ Len(q2) = Len(q) - 1 /\ Len(q) \in Nat \ {0}
      /\ 1 \in 1 .. Len(q) /\ Len(q) - 1 + 1 = Len(q) /\ Len(q) - 1 \in 0 .. Len(q) - 1
      /\ q[1] \in ToServer
  BY <1>1, Shifted
<1>3. o /\ r = n + 1 /\ ~ Name(q[1]) /\ ~ End(q[1])
  <2>1. n + 1 # 1 /\ 1 \in 1 .. Len(q) + 1 - 1
    BY <1>2
  <2> QED
    BY <2>1 DEF TakenAt, Ready
<1>4. Chunk(q[1]) => q[1].seq # r
  <2>1. q[1].seq \in Int
    BY <1>2 DEF ToServer
  <2> QED
    BY <1>2, <1>3, <2>1 DEF TakenAt, Spent
<1>5. Ready(q2, o, r, Len(q2) + 1, n + 1)
  <2>1. Len(q) \in 1 .. Len(q) /\ Len(q2) + 1 = Len(q)
    BY <1>2
  <2>2. Ready(q2, o, r, Len(q), n + 1)
    BY <1>1, <1>3, <2>1, ReadyTail DEF TakenAt
  <2> QED
    BY <2>1, <2>2
<1>6. Spent(q2, o, r, Len(q2))
  <2>1. Spent(q, o, r, Len(q) - 1 + 1) /\ r <= r
    BY <1>2 DEF TakenAt
  <2>2. Spent(q2, o, r, Len(q) - 1)
    BY <1>1, <1>2, <2>1, SpentTail
  <2> QED
    BY <1>2, <2>2
<1>7. Count(q2, ChunkType, 1, Len(q) - 1) + (IF q[1].type \in ChunkType THEN 1 ELSE 0)
        <= Count(q, ChunkType, 1, Len(q))
  <2>1. 1 \in Nat \ {0} /\ Len(q) \in 0 .. Len(q) /\ Len(q) >= 1
    BY <1>2
  <2> QED
    BY <1>1, <2>1, CountTail
<1>8. PICK a \in Nat, b \in Nat, c \in Nat, c2 \in Nat :
        /\ a = Count(p, Reply, 1, j - 1) /\ b = Count(p, Reply, j + 1, Len(p))
        /\ c = Count(q, ChunkType, 1, Len(q)) /\ c2 = Count(q2, ChunkType, 1, Len(q2))
  BY <1>2, TakenNat
<1>9. /\ c2 + (IF Chunk(q[1]) THEN 1 ELSE 0) <= c /\ t + a <= T /\ b + c + u <= t
  BY <1>2, <1>7, <1>8, ChunkIs DEF TakenAt
<1>10. /\ b + c2 + u <= t
       /\ Chunk(q[1]) => (b + 1) + c2 + u <= t
  BY <1>9
<1>11. TakenAt(q2, p, o, r, u, n, t, T, j)
  BY <1>5, <1>6, <1>8, <1>9, <1>10 DEF TakenAt
<1>12. ASSUME NEW m \in ToClient, m.type = "recv_err_msg", Chunk(q[1])
       PROVE  TakenAt(q2, Append(p, m), o, r, u, n, t, T, j)
  <2>1. PICK p3 : p3 = Append(p, m)
    OBVIOUS
  <2>2. Len(p3) = Len(p) + 1 /\ Len(p) \in Nat /\ \A k \in 1 .. Len(p) : p3[k] = p[k]
    BY <2>1, Appended
  <2>3. j - 1 \in 0 .. Len(p) /\ j + 1 \in Nat \ {0} /\ j + 1 <= Len(p) + 1 /\ 1 \in Nat \ {0}
        /\ m.type \in Reply
    BY <1>12, <2>2 DEF Reply
  <2>4. Count(p3, Reply, 1, j - 1) = a
    <3>1. Count(Append(p, m), Reply, 1, j - 1) = Count(p, Reply, 1, j - 1)
      BY ONLY p \in Seq(ToClient), m \in ToClient, <2>3, CountEarlier
    <3> QED
      BY ONLY <1>8, <2>1, <3>1
  <2>5. Count(p3, Reply, j + 1, Len(p) + 1) = b + 1
    <3>1. Count(p3, Reply, j + 1, Len(p) + 1)
            = Count(p, Reply, j + 1, Len(p)) + IF m.type \in Reply THEN 1 ELSE 0
      BY <2>1, <2>3, CountAppend
    <3> QED
      BY <1>8, <2>3, <3>1
  <2>6. Refused(p3, 1, j - 1) /\ Refused(p3, j + 1, Len(p) + 1)
    <3>1. Refused(p3, 1, j - 1)
      BY <2>1, <2>3, RefusedAppend DEF TakenAt
    <3>2. Refused(p3, j + 1, Len(p) + 1)
      BY <1>12, <2>1, <2>3, RefusedAppend DEF TakenAt
    <3> QED
      BY <3>1, <3>2
  <2>7. IsFor(p3[j], n)
    BY <2>2 DEF TakenAt
  <2>8. TakenAt(q2, p3, o, r, u, n, t, T, j)
    BY <1>5, <1>6, <1>8, <1>9, <1>10, <1>12, <2>2, <2>4, <2>5, <2>6, <2>7 DEF TakenAt
  <2> QED
    BY <2>1, <2>8
<1> QED
  BY <1>1, <1>3, <1>4, <1>11, <1>12 DEF Foreign, Declines

\* Something else goes wrong, or the answer takes too long.
LEMMA ComingLate ==
  ASSUME NEW q \in Seq(ToServer), NEW p \in Seq(ToClient), NEW o, NEW r, NEW n,
         NEW u \in {0, 1}, NEW t \in Nat, NEW T \in Nat, NEW i \in 1 .. Len(q),
         ComingAt(q, p, o, r, u, n, t, T, i)
  PROVE  /\ t <= T /\ ComingAt(q, p, o, r, u, n, t, T + 1, i)
         /\ u = 0 => ComingAt(q, p, o, r, 1, n, t + 1, T + 1, i)
<1>0. Len(q) - i \in Int
  OBVIOUS
<1>1. PICK a \in Nat, b \in Nat, l \in Int :
        /\ a = Count(p, Reply, 1, Len(p)) /\ b = Count(q, ChunkType, 1, i - 1) /\ l = Len(q) - i
  BY <1>0, ComingNat
<1>2. t + a + b <= T /\ l + u <= t
  BY <1>1 DEF ComingAt
<1>3. /\ t <= T /\ t + a + b <= T + 1 /\ (t + 1) + a + b <= T + 1
      /\ u = 0 => l + 1 <= t + 1
  BY <1>2
<1> QED
  BY <1>1, <1>2, <1>3 DEF ComingAt

LEMMA TakenLate ==
  ASSUME NEW q \in Seq(ToServer), NEW p \in Seq(ToClient), NEW o, NEW r, NEW n,
         NEW u \in {0, 1}, NEW t \in Nat, NEW T \in Nat, NEW j \in 1 .. Len(p),
         TakenAt(q, p, o, r, u, n, t, T, j)
  PROVE  /\ t <= T /\ TakenAt(q, p, o, r, u, n, t, T + 1, j)
         /\ u = 0 => TakenAt(q, p, o, r, 1, n, t + 1, T + 1, j)
<1>1. PICK a \in Nat, b \in Nat, c \in Nat :
        /\ a = Count(p, Reply, 1, j - 1) /\ b = Count(p, Reply, j + 1, Len(p))
        /\ c = Count(q, ChunkType, 1, Len(q))
  BY TakenNat
<1>2. t + a <= T /\ b + c + u <= t
  BY <1>1 DEF TakenAt
<1>3. /\ t <= T /\ t + a <= T + 1 /\ (t + 1) + a <= T + 1
      /\ u = 0 => b + c + 1 <= t + 1
  BY <1>2
<1> QED
  BY <1>1, <1>2, <1>3 DEF TakenAt

-----------------------------------------------------------------------------
(* A chunk is still due, under way or taken, or it was taken and the answer*)
(* is lost. T mishaps have come so far, e chunks in a row were given up,   *)
(* and the file has L chunks. Only in the last case is chunk n given up.   *)

StillDue(q, p, o, r, u, n, t, e, T) ==
  e <= T /\ Loose(q, p, o, r, T - t - (1 - u)) /\ Ready(q, o, r, Len(q) + 1, n)
OnItsWay(q, p, o, r, u, n, t, e, T) ==
  e <= T /\ \E i \in 1 .. Len(q) : ComingAt(q, p, o, r, u, n, t, T, i)
Arrived(q, p, o, r, u, n, t, e, T) ==
  e <= T /\ \E j \in 1 .. Len(p) : TakenAt(q, p, o, r, u, n, t, T, j)
AnswerLost(q, p, o, r, u, n, e, T) ==
  e + 1 <= T /\ Loose(q, p, o, r, T - u) /\ Ready(q, o, r, Len(q) + 1, n + 1)
Flight(q, p, o, r, u, n, t, e, T, L) ==
  \/ StillDue(q, p, o, r, u, n, t, e, T)
  \/ n <= L /\ \/ OnItsWay(q, p, o, r, u, n, t, e, T)
               \/ Arrived(q, p, o, r, u, n, t, e, T)
               \/ AnswerLost(q, p, o, r, u, n, e, T)

\* The client will send chunk n again, or, if it has been tried often enough, go
\* on with the next one.
Retried(q, p, o, r, n, t, e, T, L) ==
  /\ Flight(q, p, o, r, 1, n, t + 1, e, T, L)
  /\ t + 1 <= T \/ (e + 1 <= T /\ Flight(q, p, o, r, 1, n + 1, 0, e + 1, T, L))

LEMMA FlightMore ==
  ASSUME NEW q \in Seq(ToServer), NEW p \in Seq(ToClient), NEW o, NEW r \in Nat,
         NEW u \in {0, 1}, NEW n \in Nat \ {0}, NEW t \in Nat, NEW e \in Nat, NEW T \in Nat,
         NEW L, Flight(q, p, o, r, u, n, t, e, T, L)
  PROVE  Flight(q, p, o, r, u, n, t, e, T + 1, L)
<1>1. CASE StillDue(q, p, o, r, u, n, t, e, T)
  <2>1. /\ T - t - (1 - u) \in Int /\ T + 1 - t - (1 - u) \in Int
        /\ T - t - (1 - u) <= T + 1 - t - (1 - u) /\ e <= T + 1
    BY <1>1 DEF StillDue
  <2>2. Loose(q, p, o, r, T + 1 - t - (1 - u))
    BY <1>1, <2>1, LooseMore DEF StillDue
  <2> QED
    BY <1>1, <2>1, <2>2 DEF StillDue, Flight
<1>2. CASE n <= L /\ OnItsWay(q, p, o, r, u, n, t, e, T)
  <2>1. PICK i \in 1 .. Len(q) : ComingAt(q, p, o, r, u, n, t, T, i)
    BY <1>2 DEF OnItsWay
  <2>2. ComingAt(q, p, o, r, u, n, t, T + 1, i)
    BY <2>1, ComingLate
  <2>3. e <= T + 1
    BY <1>2 DEF OnItsWay
  <2> QED
    BY <1>2, <2>2, <2>3 DEF OnItsWay, Flight
<1>3. CASE n <= L /\ Arrived(q, p, o, r, u, n, t, e, T)
  <2>1. PICK j \in 1 .. Len(p) : TakenAt(q, p, o, r, u, n, t, T, j)
    BY <1>3 DEF Arrived
  <2>2. TakenAt(q, p, o, r, u, n, t, T + 1, j)
    BY <2>1, TakenLate
  <2>3. e <= T + 1
    BY <1>3 DEF Arrived
  <2> QED
    BY <1>3, <2>2, <2>3 DEF Arrived, Flight
<1>4. CASE n <= L /\ AnswerLost(q, p, o, r, u, n, e, T)
  <2>1. T - u \in Int /\ T + 1 - u \in Int /\ T - u <= T + 1 - u /\ e + 1 <= T + 1
    BY <1>4 DEF AnswerLost
  <2>2. Loose(q, p, o, r, T + 1 - u)
    BY <1>4, <2>1, LooseMore DEF AnswerLost
  <2> QED
    BY <1>4, <2>1, <2>2 DEF AnswerLost, Flight
<1> QED
  BY <1>1, <1>2, <1>3, <1>4 DEF Flight

\* The server sends output of its shell.
Speaks(p, p2) == \E m \in ToClient : m.type \notin Reply /\ p2 = Append(p, m)
LEMMA FlightOutput ==
  ASSUME NEW q \in Seq(ToServer), NEW p \in Seq(ToClient), NEW o, NEW r \in Nat,
         NEW u \in {0, 1}, NEW n \in Nat \ {0}, NEW t \in Nat, NEW e \in Nat, NEW T \in Nat,
         NEW L, Flight(q, p, o, r, u, n, t, e, T, L), NEW p2, Speaks(p, p2)
  PROVE  Flight(q, p2, o, r, u, n, t, e, T, L)
<1>0. PICK m \in ToClient : m.type \notin Reply /\ p2 = Append(p, m)
  BY DEF Speaks
<1>1. ASSUME NEW x \in Int, Loose(q, p, o, r, x)
      PROVE  Loose(q, Append(p, m), o, r, x)
  BY <1>0, <1>1, LooseAnswered
<1>2. T - t - (1 - u) \in Int /\ T - u \in Int
  OBVIOUS
<1>3. CASE StillDue(q, p, o, r, u, n, t, e, T)
  BY <1>0, <1>1, <1>2, <1>3 DEF StillDue, Flight
<1>4. CASE n <= L /\ OnItsWay(q, p, o, r, u, n, t, e, T)
  <2>1. PICK i \in 1 .. Len(q) : ComingAt(q, p, o, r, u, n, t, T, i)
    BY <1>4 DEF OnItsWay
  <2>2. ComingAt(q, Append(p, m), o, r, u, n, t, T, i)
    BY <1>0, <2>1, ComingAnswered
  <2> QED
    BY <1>0, <1>4, <2>2 DEF OnItsWay, Flight
<1>5. CASE n <= L /\ Arrived(q, p, o, r, u, n, t, e, T)
  <2>1. PICK j \in 1 .. Len(p) : TakenAt(q, p, o, r, u, n, t, T, j)
    BY <1>5 DEF Arrived
  <2>2. TakenAt(q, Append(p, m), o, r, u, n, t, T, j)
    BY <1>0, <2>1, TakenAnswered
  <2>3. j \in 1 .. Len(Append(p, m))
    BY Appended
  <2> QED
    BY <1>0, <1>5, <2>2, <2>3 DEF Arrived, Flight
<1>6. CASE n <= L /\ AnswerLost(q, p, o, r, u, n, e, T)
  BY <1>0, <1>1, <1>2, <1>6 DEF AnswerLost, Flight
<1> QED
  BY <1>3, <1>4, <1>5, <1>6 DEF Flight

\* The client reads what is no answer, or a refusal; or nothing comes, or not in time.
LEMMA FlightRead ==
  ASSUME NEW q \in Seq(ToServer), NEW p \in Seq(ToClient), NEW o, NEW r \in Nat,
         NEW u \in {0, 1}, NEW n \in Nat \ {0}, NEW t \in Nat, NEW e \in Nat, NEW T \in Nat,
         NEW L, Flight(q, p, o, r, u, n, t, e, T, L), p # <<>>, ~ IsFor(p[1], n)
  PROVE  /\ Flight(q, Tail(p), o, r, u, n, t, e, T, L)
         /\ p[1].type \in Reply /\ u = 0 => Retried(q, Tail(p), o, r, n, t, e, T, L)
<1>1. ASSUME NEW x \in Int, Loose(q, p, o, r, x)
      PROVE  /\ Loose(q, Tail(p), o, r, x)
             /\ p[1].type \in Reply => Loose(q, Tail(p), o, r, x - 1)
  BY <1>1, LooseRead
<1>2. CASE StillDue(q, p, o, r, u, n, t, e, T)
  <2>1. PICK x \in Int : x = T - t - (1 - u)
    OBVIOUS
  <2>2. /\ Loose(q, Tail(p), o, r, x)
        /\ p[1].type \in Reply => Loose(q, Tail(p), o, r, x - 1)
    BY <1>1, <1>2, <2>1 DEF StillDue
  <2>3. StillDue(q, Tail(p), o, r, u, n, t, e, T)
    BY <1>2, <2>1, <2>2 DEF StillDue
  <2>4. ASSUME p[1].type \in Reply, u = 0
        PROVE  Retried(q, Tail(p), o, r, n, t, e, T, L)
    <3>1. Total(q, Tail(p)) <= x - 1 /\ Total(q, Tail(p)) \in Nat
      BY <2>2, <2>4, TotalNat, Shifted DEF Loose
    <3>2. t + 1 <= T /\ x - 1 <= T - (t + 1) - (1 - 1) /\ x - 1 \in Int
          /\ T - (t + 1) - (1 - 1) \in Int
      BY <2>1, <2>4, <3>1
    <3>3. Tail(p) \in Seq(ToClient)
      BY Shifted
    <3>4. Loose(q, Tail(p), o, r, T - (t + 1) - (1 - 1))
      BY <2>2, <2>4, <3>2, <3>3, LooseMore
    <3> QED
      BY <1>2, <3>2, <3>4 DEF Retried, Flight, StillDue
  <2> QED
    BY <2>3, <2>4 DEF Flight
<1>3. CASE n <= L /\ OnItsWay(q, p, o, r, u, n, t, e, T)
  <2>1. PICK i \in 1 .. Len(q) : ComingAt(q, p, o, r, u, n, t, T, i)
    BY <1>3 DEF OnItsWay
  <2>2. /\ ComingAt(q, Tail(p), o, r, u, n, t, T, i)
        /\ p[1].type \in Reply => /\ ~ IsFor(p[1], n) /\ t + 1 <= T
                                  /\ u = 0 => ComingAt(q, Tail(p), o, r, 1, n, t + 1, T, i)
    BY <2>1, ComingRead
  <2> QED
    BY <1>3, <2>2 DEF OnItsWay, Flight, Retried
<1>4. CASE n <= L /\ Arrived(q, p, o, r, u, n, t, e, T)
  <2>1. PICK j \in 1 .. Len(p) : TakenAt(q, p, o, r, u, n, t, T, j)
    BY <1>4 DEF Arrived
  <2>2. j # 1
    BY <2>1 DEF TakenAt
  <2>3. j \in 2 .. Len(p) /\ j - 1 \in 1 .. Len(Tail(p))
    <3>1. Len(Tail(p)) = Len(p) - 1 /\ Len(p) \in Nat
      BY Shifted
    <3> QED
      BY <2>2, <3>1
  <2>4. /\ TakenAt(q, Tail(p), o, r, u, n, t, T, j - 1)
        /\ p[1].type \in Reply => /\ ~ IsFor(p[1], n) /\ t + 1 <= T
                                  /\ u = 0 => TakenAt(q, Tail(p), o, r, 1, n, t + 1, T, j - 1)
    BY <2>1, <2>3, TakenRead
  <2> QED
    BY <1>4, <2>3, <2>4 DEF Arrived, Flight, Retried
<1>5. CASE n <= L /\ AnswerLost(q, p, o, r, u, n, e, T)
  <2>1. PICK x \in Int : x = T - u
    OBVIOUS
  <2>2. /\ Loose(q, Tail(p), o, r, x)
        /\ p[1].type \in Reply => Loose(q, Tail(p), o, r, x - 1)
    BY <1>1, <1>5, <2>1 DEF AnswerLost
  <2>3. AnswerLost(q, Tail(p), o, r, u, n, e, T)
    BY <1>5, <2>1, <2>2 DEF AnswerLost
  <2>4. ASSUME p[1].type \in Reply, u = 0
        PROVE  Retried(q, Tail(p), o, r, n, t, e, T, L)
    <3>1. x - 1 = T - 1 /\ x - 1 = T - 0 - (1 - 0) /\ x - 1 <= T - 0 - (1 - 1) /\ x - 1 \in Int
          /\ T - 0 - (1 - 1) \in Int
      BY <2>1, <2>4
    <3>2. Tail(p) \in Seq(ToClient)
      BY Shifted
    <3>3. Loose(q, Tail(p), o, r, T - 1) /\ Loose(q, Tail(p), o, r, T - 0 - (1 - 1))
      BY <2>2, <2>4, <3>1, <3>2, LooseMore
    <3>4. AnswerLost(q, Tail(p), o, r, 1, n, e, T)
      BY <1>5, <3>3 DEF AnswerLost
    <3>5. StillDue(q, Tail(p), o, r, 1, n + 1, 0, e + 1, T)
      BY <1>5, <3>3 DEF AnswerLost, StillDue
    <3> QED
      BY <1>5, <3>4, <3>5 DEF Retried, Flight, AnswerLost
  <2> QED
    BY <1>5, <2>3, <2>4 DEF Flight
<1> QED
  BY <1>2, <1>3, <1>4, <1>5 DEF Flight

LEMMA FlightNone ==
  ASSUME NEW q \in Seq(ToServer), NEW p \in Seq(ToClient), NEW o, NEW r \in Nat,
         NEW n \in Nat \ {0}, NEW t \in Nat, NEW e \in Nat, NEW T \in Nat,
         NEW L, Flight(q, p, o, r, 0, n, t, e, T, L), q = <<>>, p = <<>>
  PROVE  Retried(q, p, o, r, n, t, e, T, L)
<1>1. Len(q) = 0 /\ Len(p) = 0 /\ 1 .. 0 = {}
  OBVIOUS
<1>2. Total(q, p) = 0
  <2>1. Len(q) \in Int /\ Len(p) \in Int /\ 1 \in Int /\ Len(q) < 1 /\ Len(p) < 1
    BY <1>1
  <2>2. Count(q, ChunkType, 1, Len(q)) = 0 /\ Count(p, Reply, 1, Len(p)) = 0
    BY <2>1, CountNat
  <2> QED
    BY <2>2 DEF Total
<1>3. CASE StillDue(q, p, o, r, 0, n, t, e, T)
  <2>1. 0 <= T - t - (1 - 0)
    BY <1>2, <1>3 DEF StillDue, Loose
  <2>2. t + 1 <= T /\ 0 <= T - (t + 1) - (1 - 1)
    BY <2>1
  <2> QED
    BY <1>2, <1>3, <2>2 DEF StillDue, Loose, Flight, Retried
<1>4. CASE n <= L /\ AnswerLost(q, p, o, r, 0, n, e, T)
  <2>1. e + 1 <= T /\ 0 <= T - 1 /\ 0 <= T - 0 - (1 - 1)
    BY <1>4 DEF AnswerLost
  <2> QED
    BY <1>2, <1>4, <2>1 DEF AnswerLost, StillDue, Loose, Flight, Retried
<1> QED
  BY <1>1, <1>3, <1>4 DEF Flight, OnItsWay, Arrived

LEMMA FlightLate ==
  ASSUME NEW q \in Seq(ToServer), NEW p \in Seq(ToClient), NEW o, NEW r \in Nat,
         NEW n \in Nat \ {0}, NEW t \in Nat, NEW e \in Nat, NEW T \in Nat,
         NEW L, Flight(q, p, o, r, 0, n, t, e, T, L)
  PROVE  Retried(q, p, o, r, n, t, e, T + 1, L)
<1>1. Total(q, p) \in Nat
  BY TotalNat
<1>2. CASE StillDue(q, p, o, r, 0, n, t, e, T)
  <2>1. Total(q, p) <= T - t - (1 - 0) /\ e <= T
    BY <1>2 DEF StillDue, Loose
  <2>2. t + 1 <= T + 1 /\ e <= T + 1 /\ Total(q, p) <= T + 1 - (t + 1) - (1 - 1)
    BY <1>1, <2>1
  <2> QED
    BY <1>2, <2>2 DEF StillDue, Loose, Flight, Retried
<1>3. CASE n <= L /\ OnItsWay(q, p, o, r, 0, n, t, e, T)
  <2>1. PICK i \in 1 .. Len(q) : ComingAt(q, p, o, r, 0, n, t, T, i)
    BY <1>3 DEF OnItsWay
  <2>2. t <= T /\ ComingAt(q, p, o, r, 1, n, t + 1, T + 1, i)
    BY <2>1, ComingLate
  <2>3. e <= T + 1 /\ t + 1 <= T + 1
    BY <1>3, <2>2 DEF OnItsWay
  <2> QED
    BY <1>3, <2>2, <2>3 DEF OnItsWay, Flight, Retried
<1>4. CASE n <= L /\ Arrived(q, p, o, r, 0, n, t, e, T)
  <2>1. PICK j \in 1 .. Len(p) : TakenAt(q, p, o, r, 0, n, t, T, j)
    BY <1>4 DEF Arrived
  <2>2. t <= T /\ TakenAt(q, p, o, r, 1, n, t + 1, T + 1, j)
    BY <2>1, TakenLate
  <2>3. e <= T + 1 /\ t + 1 <= T + 1
    BY <1>4, <2>2 DEF Arrived
  <2> QED
    BY <1>4, <2>2, <2>3 DEF Arrived, Flight, Retried
<1>5. CASE n <= L /\ AnswerLost(q, p, o, r, 0, n, e, T)
  <2>1. Total(q, p) <= T - 0 /\ e + 1 <= T
    BY <1>5 DEF AnswerLost, Loose
  <2>2. e + 1 <= T + 1 /\ Total(q, p) <= T + 1 - 1 /\ Total(q, p) <= T + 1 - 0 - (1 - 1)
    BY <1>1, <2>1
  <2>3. AnswerLost(q, p, o, r, 1, n, e, T + 1) /\ StillDue(q, p, o, r, 1, n + 1, 0, e + 1, T + 1)
    BY <1>5, <2>2 DEF AnswerLost, StillDue, Loose
  <2> QED
    BY <1>5, <2>2, <2>3 DEF Flight, Retried
<1> QED
  BY <1>2, <1>3, <1>4, <1>5 DEF Flight

\* The answer comes, or is lost.
LEMMA FlightFor ==
  ASSUME NEW q \in Seq(ToServer), NEW p \in Seq(ToClient), NEW o, NEW r \in Nat,
         NEW u \in {0, 1}, NEW n \in Nat \ {0}, NEW t \in Nat, NEW e \in Nat, NEW T \in Nat,
         NEW L, Flight(q, p, o, r, u, n, t, e, T, L), p # <<>>, IsFor(p[1], n)
  PROVE  /\ n <= L /\ e <= T /\ t <= T /\ Loose(q, Tail(p), o, r, t - u)
         /\ Ready(q, o, r, Len(q) + 1, n + 1)
<1>1. p[1].type \in Reply /\ T - t - (1 - u) \in Int /\ T - u \in Int
  BY DEF IsFor, Reply
<1>2. ~ StillDue(q, p, o, r, u, n, t, e, T) /\ ~ AnswerLost(q, p, o, r, u, n, e, T)
  BY <1>1, LooseRead DEF StillDue, AnswerLost
<1>3. ~ OnItsWay(q, p, o, r, u, n, t, e, T)
  <2>1. SUFFICES ASSUME NEW i \in 1 .. Len(q), ComingAt(q, p, o, r, u, n, t, T, i) PROVE FALSE
    BY DEF OnItsWay
  <2>2. /\ ComingAt(q, Tail(p), o, r, u, n, t, T, i)
        /\ p[1].type \in Reply => /\ ~ IsFor(p[1], n) /\ t + 1 <= T
                                  /\ u = 0 => ComingAt(q, Tail(p), o, r, 1, n, t + 1, T, i)
    BY ONLY <2>1, ComingRead, q \in Seq(ToServer), p \in Seq(ToClient), u \in {0, 1},
            t \in Nat, T \in Nat, i \in 1 .. Len(q), p # <<>>
  <2> QED
    BY ONLY <1>1, <2>2, IsFor(p[1], n)
<1>4. n <= L /\ Arrived(q, p, o, r, u, n, t, e, T)
  BY <1>2, <1>3 DEF Flight
<1>5. PICK j \in 1 .. Len(p) : TakenAt(q, p, o, r, u, n, t, T, j)
  BY <1>4 DEF Arrived
<1>6. j = 1
  <2>1. SUFFICES ASSUME j # 1 PROVE FALSE
    OBVIOUS
  <2>2. j \in 2 .. Len(p)
    BY <2>1
  <2>3. /\ TakenAt(q, Tail(p), o, r, u, n, t, T, j - 1)
        /\ p[1].type \in Reply => /\ ~ IsFor(p[1], n) /\ t + 1 <= T
                                  /\ u = 0 => TakenAt(q, Tail(p), o, r, 1, n, t + 1, T, j - 1)
    BY ONLY <1>5, <2>2, TakenRead, q \in Seq(ToServer), p \in Seq(ToClient), u \in {0, 1},
            t \in Nat, T \in Nat, p # <<>>
  <2> QED
    BY ONLY <1>1, <2>3, IsFor(p[1], n)
<1>7. t <= T /\ Loose(q, Tail(p), o, r, t - u) /\ Ready(q, o, r, Len(q) + 1, n + 1)
  BY <1>5, <1>6, TakenTold
<1> QED
  BY <1>4, <1>7 DEF Arrived

LEMMA FlightTold ==
  ASSUME NEW q \in Seq(ToServer), NEW p \in Seq(ToClient), NEW o, NEW r \in Nat,
         NEW n \in Nat \ {0}, NEW t \in Nat, NEW e \in Nat, NEW T \in Nat,
         NEW L, Flight(q, p, o, r, 0, n, t, e, T, L), p # <<>>, IsFor(p[1], n)
  PROVE  Flight(q, Tail(p), o, r, 1, n + 1, 0, 0, T, L)
<1>1. /\ t <= T /\ Loose(q, Tail(p), o, r, t - 0) /\ Ready(q, o, r, Len(q) + 1, n + 1)
  BY FlightFor
<1>2. Tail(p) \in Seq(ToClient) /\ t - 0 <= T - 0 - (1 - 1) /\ t - 0 \in Int
      /\ T - 0 - (1 - 1) \in Int /\ 0 <= T
  BY <1>1, Shifted
<1>3. Loose(q, Tail(p), o, r, T - 0 - (1 - 1))
  BY <1>1, <1>2, LooseMore
<1> QED
  BY <1>1, <1>2, <1>3 DEF StillDue, Flight

LEMMA FlightUntold ==
  ASSUME NEW q \in Seq(ToServer), NEW p \in Seq(ToClient), NEW o, NEW r \in Nat,
         NEW u \in {0, 1}, NEW n \in Nat \ {0}, NEW t \in Nat, NEW e \in Nat, NEW T \in Nat,
         NEW L, Flight(q, p, o, r, u, n, t, e, T, L), p # <<>>
  PROVE  Flight(q, Tail(p), o, r, u, n, t, e, T + 1, L)
<1>1. Tail(p) \in Seq(ToClient)
  BY Shifted
<1>2. CASE ~ IsFor(p[1], n)
  <2>1. Flight(q, Tail(p), o, r, u, n, t, e, T, L)
    BY ONLY q \in Seq(ToServer), p \in Seq(ToClient), r \in Nat, u \in {0, 1},
            n \in Nat \ {0}, t \in Nat, e \in Nat, T \in Nat,
            Flight(q, p, o, r, u, n, t, e, T, L), p # <<>>, <1>2, FlightRead, ZenonT(30)
  <2> QED
    BY ONLY q \in Seq(ToServer), r \in Nat, u \in {0, 1}, n \in Nat \ {0}, t \in Nat,
            e \in Nat, T \in Nat, <1>1, <2>1, FlightMore, ZenonT(30)
<1>3. CASE IsFor(p[1], n)
  <2>1. /\ n <= L /\ e <= T /\ t <= T /\ Loose(q, Tail(p), o, r, t - u)
        /\ Ready(q, o, r, Len(q) + 1, n + 1)
    BY <1>3, FlightFor
  <2>2. t - u <= T + 1 - u /\ t - u \in Int /\ T + 1 - u \in Int /\ e + 1 <= T + 1
    BY <2>1
  <2>3. Loose(q, Tail(p), o, r, T + 1 - u)
    BY <1>1, <2>1, <2>2, LooseMore
  <2> QED
    BY <2>1, <2>2, <2>3 DEF AnswerLost, Flight
<1> QED
  BY <1>2, <1>3

\* The client sends the chunk, or the end of the file, or the name of the next.
LEMMA FlightSent ==
  ASSUME NEW q \in Seq(ToServer), NEW p \in Seq(ToClient), NEW o, NEW r \in Nat,
         NEW n \in Nat \ {0}, NEW t \in Nat, NEW e \in Nat, NEW T \in Nat,
         NEW L, Flight(q, p, o, r, 1, n, t, e, T, L), n <= L,
         NEW m \in ToServer, Chunk(m), m.seq = n
  PROVE  Flight(Append(q, m), p, o, r, 0, n, t, e, T, L)
<1>1. PICK q2 : q2 = Append(q, m)
  OBVIOUS
<1>2. q2 \in Seq(ToServer) /\ Len(q2) = Len(q) + 1 /\ Len(q) \in Nat /\ q2[Len(q) + 1] = m
  BY <1>1, Appended
<1>3. CASE StillDue(q, p, o, r, 1, n, t, e, T)
  <2>1. PICK i : i = Len(q) + 1
    OBVIOUS
  <2>2. i \in 1 .. Len(q2) /\ i \in 1 .. Len(q) + 1 /\ i - 1 = Len(q) /\ Len(q2) - i + 0 <= t
        /\ Len(q) \in 0 .. Len(q) /\ 1 \in Nat \ {0}
    BY <1>2, <2>1
  <2>3. Ready(q2, o, r, i, n)
    BY <1>1, <1>3, <2>1, <2>2, ReadyOn DEF StillDue
  <2>4. Spent(q2, o, r, i - 1)
    BY <1>1, <1>3, <2>2, SpentOn DEF StillDue, Loose
  <2>5. \A k \in i .. Len(q2) : Chunk(q2[k]) /\ q2[k].seq = n
    BY <1>2, <2>1
  <2>6. Count(q2, ChunkType, 1, Len(q)) = Count(q, ChunkType, 1, Len(q))
    BY <1>1, <2>2, CountEarlier
  <2>7. t + Count(p, Reply, 1, Len(p)) + Count(q2, ChunkType, 1, i - 1) <= T
    <3>1. Count(p, Reply, 1, Len(p)) + Count(q, ChunkType, 1, Len(q)) <= T - t - (1 - 1)
      BY <1>3 DEF StillDue, Loose, Total
    <3>2. Count(p, Reply, 1, Len(p)) \in Nat /\ Count(q, ChunkType, 1, Len(q)) \in Nat
      BY TotalNat
    <3>3. t + Count(p, Reply, 1, Len(p)) + Count(q, ChunkType, 1, Len(q)) <= T
      BY <3>1, <3>2
    <3> QED
      BY <2>2, <2>6, <3>3
  <2>8. ComingAt(q2, p, o, r, 0, n, t, T, i)
    BY <1>3, <2>2, <2>3, <2>4, <2>5, <2>7 DEF ComingAt, StillDue, Loose
  <2> QED
    BY <1>1, <1>3, <2>2, <2>8 DEF StillDue, OnItsWay, Flight
<1>4. CASE OnItsWay(q, p, o, r, 1, n, t, e, T)
  <2>1. PICK i \in 1 .. Len(q) : ComingAt(q, p, o, r, 1, n, t, T, i)
    BY <1>4 DEF OnItsWay
  <2>2. ComingAt(q2, p, o, r, 0, n, t, T, i)
    BY <1>1, <2>1, ComingSent
  <2>3. i \in 1 .. Len(q2)
    BY <1>2
  <2> QED
    BY <1>1, <1>4, <2>2, <2>3 DEF OnItsWay, Flight
<1>5. CASE Arrived(q, p, o, r, 1, n, t, e, T)
  <2>1. PICK j \in 1 .. Len(p) : TakenAt(q, p, o, r, 1, n, t, T, j)
    BY <1>5 DEF Arrived
  <2>2. TakenAt(q2, p, o, r, 0, n, t, T, j)
    BY <1>1, <2>1, TakenSent
  <2> QED
    BY <1>1, <1>5, <2>2 DEF Arrived, Flight
<1>6. CASE AnswerLost(q, p, o, r, 1, n, e, T)
  <2>1. PICK n2 \in Nat : n2 = n + 1 /\ n2 > 1 /\ n < n2
    OBVIOUS
  <2>2. /\ o /\ r = n2 /\ \A k \in 1 .. Len(q) : ~ Name(q[k])
        /\ Ready(q2, o, r, Len(q) + 2, n2)
    BY <1>1, <1>6, <2>1, ReadyCopy DEF AnswerLost
  <2>3. Len(q2) + 1 = Len(q) + 2 /\ T - 1 \in Int /\ T - 0 \in Int /\ T - 1 < T - 0
    BY <1>2
  <2>4. Loose(q2, p, o, r, T - 0)
    BY <1>1, <1>6, <2>1, <2>2, <2>3, LooseSent DEF AnswerLost
  <2> QED
    BY <1>1, <1>6, <2>1, <2>2, <2>3, <2>4 DEF AnswerLost, Flight
<1> QED
  BY <1>3, <1>4, <1>5, <1>6 DEF Flight

LEMMA FlightEnds ==
  ASSUME NEW q \in Seq(ToServer), NEW p \in Seq(ToClient), NEW o, NEW r \in Nat,
         NEW n \in Nat \ {0}, NEW t \in Nat, NEW e \in Nat, NEW T \in Nat,
         NEW L \in Nat, Flight(q, p, o, r, 1, n, t, e, T, L), n > L
  PROVE  /\ Loose(q, p, o, r, T) /\ Ready(q, o, r, Len(q) + 1, n)
         /\ \A m \in ToServer : End(m) => Loose(Append(q, m), p, o, r, T)
<1>1. StillDue(q, p, o, r, 1, n, t, e, T)
  BY DEF Flight
<1>2. T - t - (1 - 1) <= T /\ T - t - (1 - 1) \in Int /\ T \in Int /\ T <= T
  OBVIOUS
<1>3. Loose(q, p, o, r, T) /\ Ready(q, o, r, Len(q) + 1, n)
  BY <1>1, <1>2, LooseMore DEF StillDue
<1>4. ASSUME NEW m \in ToServer, End(m)
      PROVE  Loose(Append(q, m), p, o, r, T)
  <2>1. ~ Chunk(m)
    BY <1>4 DEF End, Chunk
  <2> QED
    BY <1>2, <1>3, <2>1, LooseSent
<1> QED
  BY <1>3, <1>4

LEMMA FlightBegins ==
  ASSUME NEW q \in Seq(ToServer), NEW p \in Seq(ToClient), NEW o, NEW r \in Nat, NEW T \in Nat,
         NEW L, Loose(q, p, o, r, T), NEW m \in ToServer, Name(m)
  PROVE  Flight(Append(q, m), p, o, r, 1, 1, 0, 0, T, L)
<1>1. PICK q2 : q2 = Append(q, m)
  OBVIOUS
<1>2. q2 \in Seq(ToServer) /\ Len(q2) = Len(q) + 1 /\ Len(q) \in Nat /\ q2[Len(q) + 1] = m
  BY <1>1, Appended
<1>3. T - 0 - (1 - 1) = T /\ T \in Int /\ T <= T /\ 0 <= T /\ ~ Chunk(m)
  BY DEF Name, Chunk
<1>4. Loose(q2, p, o, r, T)
  BY <1>1, <1>3, LooseSent
<1>5. Ready(q2, o, r, Len(q2) + 1, 1)
  <2>1. Len(q2) + 1 > 1 /\ Len(q2) + 1 - 1 = Len(q) + 1
    BY <1>2
  <2> QED
    BY <1>2, <2>1 DEF Ready
<1> QED
  BY <1>1, <1>3, <1>4, <1>5 DEF StillDue, Flight

\* The server deals with the name of a file, or its end.
Opens(m, o, r, o2, r2) ==
  /\ Name(m) => o2 /\ r2 = 1
  /\ Name(m) \/ (End(m) /\ r2 = r /\ (o2 => o))
LEMMA FlightDone ==
  ASSUME NEW q, NEW p, NEW o, NEW o2, NEW r, NEW r2 \in Nat, NEW u, NEW n, NEW t, NEW e \in Nat,
         NEW T, NEW L, Queues(q, p, r, u, n, t, T), Flight(q, p, o, r, u, n, t, e, T, L),
         Opens(q[1], o, r, o2, r2)
  PROVE  Flight(Tail(q), p, o2, r2, u, n, t, e, T, L)
<1>t. /\ q \in Seq(ToServer) /\ q # <<>> /\ p \in Seq(ToClient) /\ r \in Nat
      /\ u \in {0, 1} /\ n \in Nat \ {0} /\ t \in Nat /\ T \in Nat
  BY DEF Queues
<1> USE <1>t
<1>o. /\ Name(q[1]) => o2 /\ r2 = 1
      /\ Name(q[1]) \/ (End(q[1]) /\ r2 = r /\ (o2 => o))
  BY DEF Opens
<1>0. Queues(q, p, r, u, n, t, T) /\ Passes(q[1], o, r, o2, r2) /\ Declines(q[1], p, p)
  BY <1>o DEF Queues, Passes, Declines
<1>1. PICK q2 : q2 = Tail(q)
  OBVIOUS
<1>2. /\ q2 \in Seq(ToServer) /\ Len(q2) = Len(q) - 1 /\ Len(q) \in Nat \ {0}
      /\ Len(q) \in 1 .. Len(q) /\ Len(q2) + 1 = Len(q) /\ r <= r
  BY <1>1, Shifted
<1>3. ~ Chunk(q[1]) /\ (Name(q[1]) \/ (o2 => o /\ r <= r2))
  BY <1>o, <1>2 DEF Chunk, Name, End
<1>4. ASSUME NEW x \in Int, Loose(q, p, o, r, x)
      PROVE  Loose(q2, p, o2, r2, x)
  BY <1>1, <1>3, <1>4, LooseTaken
<1>5. ASSUME NEW k \in Nat, Ready(q, o, r, Len(q) + 1, k)
      PROVE  Ready(q2, o2, r2, Len(q2) + 1, k)
  <2>1. Ready(q2, o2, r2, Len(q), k)
    BY <1>o, <1>1, <1>2, <1>5, ReadyTail
  <2> QED
    BY <1>2, <2>1
<1>6. T - t - (1 - u) \in Int /\ T - u \in Int /\ n \in Nat /\ n + 1 \in Nat
  OBVIOUS
<1>7. CASE StillDue(q, p, o, r, u, n, t, e, T)
  BY <1>1, <1>4, <1>5, <1>6, <1>7 DEF StillDue, Flight
<1>8. CASE n <= L /\ OnItsWay(q, p, o, r, u, n, t, e, T)
  <2>1. PICK i \in 1 .. Len(q) : ComingAt(q, p, o, r, u, n, t, T, i)
    BY <1>8 DEF OnItsWay
  <2>2. i # 1
    <3>1. Chunk(q[i])
      BY <1>2, <2>1 DEF ComingAt
    <3> QED
      BY <1>3, <3>1
  <2>3. i \in 2 .. Len(q) /\ i - 1 \in 1 .. Len(q2)
    BY <1>2, <2>2
  <2>4. ComingAt(Tail(q), p, o2, r2, u, n, t, T, i - 1)
    BY ONLY <1>0, r2 \in Nat, <2>1, <2>3, ComingNearer
  <2> QED
    BY <1>1, <1>8, <2>3, <2>4 DEF OnItsWay, Flight
<1>9. CASE Arrived(q, p, o, r, u, n, t, e, T)
  <2>1. PICK j \in 1 .. Len(p) : TakenAt(q, p, o, r, u, n, t, T, j)
    BY <1>9 DEF Arrived
  <2>2. Foreign(q[1], o, r) /\ TakenAt(Tail(q), p, o, r, u, n, t, T, j)
    BY ONLY <1>0, j \in 1 .. Len(p), <2>1, TakenCopies
  <2> QED
    BY <1>o, <1>3, <2>2 DEF Foreign
<1>10. CASE n <= L /\ AnswerLost(q, p, o, r, u, n, e, T)
  BY <1>1, <1>4, <1>5, <1>6, <1>10 DEF AnswerLost, Flight
<1> QED
  BY <1>7, <1>8, <1>9, <1>10 DEF Flight

\* The server does not get what comes next.
LEMMA FlightDropped ==
  ASSUME NEW q \in Seq(ToServer), NEW p \in Seq(ToClient), NEW o, NEW r \in Nat,
         NEW u \in {0, 1}, NEW n \in Nat \ {0}, NEW t \in Nat, NEW e \in Nat,
         NEW T \in Nat, NEW L, Flight(q, p, o, r, u, n, t, e, T, L), q # <<>>, ~ Name(q[1])
  PROVE  Flight(Tail(q), p, o, r, u, n, t, e, T + 1, L)
<1>0. Queues(q, p, r, u, n, t, T) /\ Passes(q[1], o, r, o, r) /\ Declines(q[1], p, p)
  BY DEF Queues, Passes, Declines
<1>1. PICK q2 : q2 = Tail(q)
  OBVIOUS
<1>2. /\ q2 \in Seq(ToServer) /\ Len(q2) = Len(q) - 1 /\ Len(q) \in Nat \ {0}
      /\ Len(q) \in 1 .. Len(q) /\ Len(q2) + 1 = Len(q) /\ r <= r
  BY <1>1, Shifted
<1>3. ASSUME NEW x \in Int, Loose(q, p, o, r, x)
      PROVE  Loose(q2, p, o, r, x + 1)
  <2>1. PICK y \in {x, x - 1} : Loose(q2, p, o, r, y)
    BY <1>1, <1>2, <1>3, LooseTaken
  <2>2. y \in Int /\ x + 1 \in Int /\ y <= x + 1
    OBVIOUS
  <2> QED
    BY <1>2, <2>1, <2>2, LooseMore
<1>4. ASSUME NEW k \in Nat, Ready(q, o, r, Len(q) + 1, k)
      PROVE  Ready(q2, o, r, Len(q2) + 1, k)
  <2>1. Ready(q2, o, r, Len(q), k)
    BY <1>1, <1>2, <1>4, ReadyTail
  <2> QED
    BY <1>2, <2>1
<1>5. /\ T - t - (1 - u) \in Int /\ T - u \in Int /\ n \in Nat /\ n + 1 \in Nat
      /\ T - t - (1 - u) + 1 = T + 1 - t - (1 - u) /\ T - u + 1 = T + 1 - u
      /\ e <= T => e <= T + 1
      /\ e + 1 <= T => e + 1 <= T + 1
  OBVIOUS
<1>6. CASE StillDue(q, p, o, r, u, n, t, e, T)
  <2>1. Loose(q2, p, o, r, T - t - (1 - u) + 1) /\ Ready(q2, o, r, Len(q2) + 1, n) /\ e <= T
    BY <1>3, <1>4, <1>5, <1>6 DEF StillDue
  <2> QED
    BY <1>1, <1>5, <2>1 DEF StillDue, Flight
<1>7. CASE n <= L /\ OnItsWay(q, p, o, r, u, n, t, e, T)
  <2>1. PICK i \in 1 .. Len(q) : ComingAt(q, p, o, r, u, n, t, T, i)
    BY <1>7 DEF OnItsWay
  <2>2. CASE i = 1
    <3>1. \/ 1 \in 1 .. Len(q2) /\ ComingAt(q2, p, o, r, u, n, t, T + 1, 1)
          \/ /\ Loose(q2, p, o, r, (T + 1) - t - (1 - u))
             /\ Ready(q2, o, r, Len(q2) + 1, n)
      BY <1>1, <2>1, <2>2, ComingLost
    <3>2. e <= T + 1
      BY <1>5, <1>7 DEF OnItsWay
    <3> QED
      BY <1>1, <1>7, <3>1, <3>2 DEF OnItsWay, StillDue, Flight
  <2>3. CASE i # 1
    <3>1. i \in 2 .. Len(q) /\ i - 1 \in 1 .. Len(q2)
      BY <1>2, <2>3
    <3>2. ComingAt(Tail(q), p, o, r, u, n, t, T, i - 1)
      BY ONLY <1>0, r \in Nat, <2>1, <3>1, ComingNearer
    <3>3. ComingAt(q2, p, o, r, u, n, t, T + 1, i - 1)
      <4>1. ComingAt(q2, p, o, r, u, n, t, T, i - 1)
        BY <1>1, <3>2
      <4> QED
        BY ONLY p \in Seq(ToClient), u \in {0, 1}, t \in Nat, T \in Nat, <1>2, <3>1, <4>1,
                ComingLate
    <3>4. e <= T + 1
      BY <1>5, <1>7 DEF OnItsWay
    <3> QED
      BY <1>1, <1>7, <3>1, <3>3, <3>4 DEF OnItsWay, Flight
  <2> QED
    BY <2>2, <2>3
<1>8. CASE n <= L /\ Arrived(q, p, o, r, u, n, t, e, T)
  <2>1. PICK j \in 1 .. Len(p) : TakenAt(q, p, o, r, u, n, t, T, j)
    BY <1>8 DEF Arrived
  <2>2. Foreign(q[1], o, r) /\ TakenAt(Tail(q), p, o, r, u, n, t, T, j)
    BY ONLY <1>0, j \in 1 .. Len(p), <2>1, TakenCopies
  <2>3. TakenAt(q2, p, o, r, u, n, t, T + 1, j)
    <3>1. TakenAt(q2, p, o, r, u, n, t, T, j)
      BY <1>1, <2>2
    <3>2. j \in 1 .. Len(p)
      OBVIOUS
    <3> QED
      BY ONLY p \in Seq(ToClient), u \in {0, 1}, t \in Nat, T \in Nat, <1>2, <3>1, <3>2, TakenLate
  <2>4. e <= T + 1
    BY <1>5, <1>8 DEF Arrived
  <2> QED
    BY <1>1, <1>8, <2>3, <2>4 DEF Arrived, Flight
<1>9. CASE n <= L /\ AnswerLost(q, p, o, r, u, n, e, T)
  <2>1. /\ Loose(q2, p, o, r, T - u + 1) /\ Ready(q2, o, r, Len(q2) + 1, n + 1)
        /\ e + 1 <= T
    BY <1>3, <1>4, <1>5, <1>9 DEF AnswerLost
  <2> QED
    BY <1>1, <1>5, <1>9, <2>1 DEF AnswerLost, Flight
<1> QED
  BY <1>6, <1>7, <1>8, <1>9 DEF Flight

\* The server takes the next chunk of the file, which is the one under way.
Takes(m, o, r) == Chunk(m) /\ o /\ m.seq = r
Confirms(p, p2, r) == \E m \in ToClient : IsFor(m, r) /\ p2 = Append(p, m)
LEMMA FlightTaken ==
  ASSUME NEW q, NEW p, NEW p2, NEW o, NEW r, NEW r2, NEW u, NEW n, NEW t, NEW e \in Nat,
         NEW T, NEW L, Queues(q, p, r, u, n, t, T), Flight(q, p, o, r, u, n, t, e, T, L),
         Takes(q[1], o, r), Confirms(p, p2, r), r2 = r + 1
  PROVE  /\ n = r /\ n <= L /\ \A k \in 1 .. Len(q) : ~ Name(q[k])
         /\ Flight(Tail(q), p2, o, r2, u, n, t, e, T, L)
<1>t. /\ q \in Seq(ToServer) /\ q # <<>> /\ p \in Seq(ToClient) /\ r \in Nat
      /\ u \in {0, 1} /\ n \in Nat \ {0} /\ t \in Nat /\ T \in Nat
  BY DEF Queues
<1> USE <1>t
<1>m. PICK m \in ToClient : IsFor(m, r) /\ p2 = Append(p, m)
  BY DEF Confirms
<1>0. Queues(q, p, r, u, n, t, T) /\ Declines(q[1], p, p)
  BY DEF Queues, Declines
<1>1. /\ Len(Append(p, m)) = Len(p) + 1 /\ Len(p) \in Nat
      /\ Len(p) + 1 \in 1 .. Len(p) + 1 /\ q[1] \in ToServer
  BY Appended, Shifted
<1>2. ASSUME NEW x, Loose(q, p, o, r, x)
      PROVE  FALSE
  <2>1. Chunk(q[1]) /\ o /\ q[1].seq = r
    BY DEF Takes
  <2>2. o => q[1].seq < r /\ q[1].seq # r
    BY <1>2, <2>1, LooseRefused
  <2> QED
    BY <2>1, <2>2
<1>3. ~ Arrived(q, p, o, r, u, n, t, e, T)
  <2>1. SUFFICES ASSUME NEW j \in 1 .. Len(p), TakenAt(q, p, o, r, u, n, t, T, j) PROVE FALSE
    BY DEF Arrived
  <2>2. Foreign(q[1], o, r) /\ TakenAt(Tail(q), p, o, r, u, n, t, T, j)
    BY ONLY <1>0, j \in 1 .. Len(p), <2>1, TakenCopies
  <2> QED
    BY <2>2 DEF Foreign, Takes
<1>4. n <= L /\ OnItsWay(q, p, o, r, u, n, t, e, T)
  BY <1>2, <1>3 DEF Flight, StillDue, AnswerLost
<1>5. PICK i \in 1 .. Len(q) : ComingAt(q, p, o, r, u, n, t, T, i)
  BY <1>4 DEF OnItsWay
<1>6. i = 1
  <2>1. SUFFICES ASSUME i # 1 PROVE FALSE
    OBVIOUS
  <2>2. 1 \in 1 .. i - 1
    BY <2>1
  <2>3. q[1].seq < r
    BY <1>5, <2>2 DEF ComingAt, Spent, Takes
  <2>4. q[1].seq = r
    BY DEF Takes
  <2> QED
    BY <2>3, <2>4
<1>7. ComingAt(q, p, o, r, u, n, t, T, 1)
  BY <1>5, <1>6
<1>8. r = n
  BY <1>7 DEF ComingAt, Ready
<1>9. IsFor(m, n)
  BY <1>m, <1>8
<1>10. TakenAt(Tail(q), Append(p, m), o, r + 1, u, n, t, T, Len(p) + 1)
  BY ONLY <1>0, <1>7, <1>9, m \in ToClient, ComingArrived
<1>12. \A k \in 1 .. Len(q) : ~ Name(q[k])
  BY ONLY <1>0, <1>7, <1>9, m \in ToClient, ComingArrived
<1>11. Arrived(Tail(q), Append(p, m), o, r + 1, u, n, t, e, T)
  BY <1>1, <1>4, <1>10 DEF Arrived, OnItsWay
<1> QED
  BY <1>m, <1>4, <1>8, <1>11, <1>12 DEF Flight

\* The server refuses a chunk.
Refuses(m, o, r, p, p2) ==
  /\ Chunk(m) /\ (o => m.seq # r)
  /\ IF o THEN \E s \in ToClient : s.type = "recv_err_msg" /\ p2 = Append(p, s) ELSE p2 = p
LEMMA FlightRefused ==
  ASSUME NEW q, NEW p, NEW o, NEW r, NEW u, NEW n, NEW t, NEW e \in Nat, NEW T, NEW L,
         Queues(q, p, r, u, n, t, T), Flight(q, p, o, r, u, n, t, e, T, L),
         NEW p2 \in Seq(ToClient), Refuses(q[1], o, r, p, p2)
  PROVE  Flight(Tail(q), p2, o, r, u, n, t, e, T, L)
<1>t. /\ q \in Seq(ToServer) /\ q # <<>> /\ p \in Seq(ToClient) /\ r \in Nat
      /\ u \in {0, 1} /\ n \in Nat \ {0} /\ t \in Nat /\ T \in Nat
  BY DEF Queues
<1> USE <1>t
<1>0. Queues(q, p, r, u, n, t, T) /\ Passes(q[1], o, r, o, r)
  BY DEF Queues, Passes, Chunk, Name, Refuses
<1>10. Declines(q[1], p, p2)
  BY DEF Declines, Refuses
<1>1. PICK q2 : q2 = Tail(q)
  OBVIOUS
<1>2. /\ q2 \in Seq(ToServer) /\ Len(q2) = Len(q) - 1 /\ Len(q) \in Nat \ {0}
      /\ Len(q) \in 1 .. Len(q) /\ Len(q2) + 1 = Len(q) /\ r <= r /\ ~ Name(q[1])
  BY <1>1, Shifted DEF Chunk, Name, Refuses
<1>3. ASSUME NEW x \in Int, Loose(q, p, o, r, x)
      PROVE  Loose(q2, p2, o, r, x)
  <2>1. Loose(q2, p, o, r, x - 1)
    <3>1. Chunk(q[1])
      BY DEF Refuses
    <3> QED
      BY <1>1, <1>2, <1>3, <3>1, LooseTaken
  <2>2. x - 1 \in Int /\ x - 1 < x /\ x - 1 <= x
    OBVIOUS
  <2>3. CASE ~ o
    <3>1. p2 = p
      BY <2>3 DEF Refuses
    <3> QED
      BY <1>2, <2>1, <2>2, <3>1, LooseMore
  <2>4. CASE o
    <3>1. PICK m \in ToClient : m.type = "recv_err_msg" /\ p2 = Append(p, m)
      BY <2>4 DEF Refuses
    <3>2. m.type \in Reply
      BY <3>1 DEF Reply
    <3> QED
      BY <1>2, <2>1, <2>2, <3>1, <3>2, LooseAnswered
  <2> QED
    BY <2>3, <2>4
<1>4. ASSUME NEW k \in Nat, Ready(q, o, r, Len(q) + 1, k)
      PROVE  Ready(q2, o, r, Len(q2) + 1, k)
  <2>1. Ready(q2, o, r, Len(q), k)
    BY <1>1, <1>2, <1>4, ReadyTail
  <2> QED
    BY <1>2, <2>1
<1>5. T - t - (1 - u) \in Int /\ T - u \in Int /\ n \in Nat /\ n + 1 \in Nat
  OBVIOUS
<1>6. CASE StillDue(q, p, o, r, u, n, t, e, T)
  BY <1>1, <1>3, <1>4, <1>5, <1>6 DEF StillDue, Flight
<1>7. CASE n <= L /\ OnItsWay(q, p, o, r, u, n, t, e, T)
  <2>1. PICK i \in 1 .. Len(q) : ComingAt(q, p, o, r, u, n, t, T, i)
    BY <1>7 DEF OnItsWay
  <2>2. i # 1
    <3>1. SUFFICES ASSUME i = 1 PROVE FALSE
      OBVIOUS
    <3>2. o /\ r = n /\ q[1].seq = n
      BY <1>2, <2>1, <3>1 DEF ComingAt, Ready
    <3> QED
      BY <3>2 DEF Refuses
  <2>3. i \in 2 .. Len(q) /\ i - 1 \in 1 .. Len(q2)
    BY <1>2, <2>2
  <2>5. i \in 2 .. Len(q)
    BY <2>3
  <2>4. ComingAt(Tail(q), p2, o, r, u, n, t, T, i - 1)
    BY ONLY <1>0, <1>10, r \in Nat, <2>1, <2>5, ComingNearer
  <2> QED
    BY <1>1, <1>7, <2>3, <2>4 DEF OnItsWay, Flight
<1>8. CASE n <= L /\ Arrived(q, p, o, r, u, n, t, e, T)
  <2>1. PICK j \in 1 .. Len(p) : TakenAt(q, p, o, r, u, n, t, T, j)
    BY <1>8 DEF Arrived
  <2>2. Foreign(q[1], o, r) /\ TakenAt(Tail(q), p2, o, r, u, n, t, T, j)
    BY ONLY <1>0, <1>10, j \in 1 .. Len(p), <2>1, TakenCopies
  <2>3. o
    BY <2>2 DEF Foreign, Refuses
  <2>4. PICK m \in ToClient : m.type = "recv_err_msg" /\ p2 = Append(p, m)
    BY <2>3 DEF Refuses
  <2>5. Len(p2) = Len(p) + 1 /\ Len(p) \in Nat
    BY <2>4, Appended
  <2>6. j \in 1 .. Len(p2)
    BY <2>5
  <2> QED
    BY <1>1, <1>8, <2>2, <2>6 DEF Arrived, Flight
<1>9. CASE n <= L /\ AnswerLost(q, p, o, r, u, n, e, T)
  BY <1>1, <1>3, <1>4, <1>5, <1>9 DEF AnswerLost, Flight
<1> QED
  BY <1>6, <1>7, <1>8, <1>9 DEF Flight

-----------------------------------------------------------------------------
(* The client is at a chunk, or it has none under way.                     *)

Underway(q, p, o, r, pc, n, t, e, T, L) ==
  /\ pc \in {"file", "done"} => Loose(q, p, o, r, T)
  /\ pc = "chunk" => Flight(q, p, o, r, 1, n, t, e, T, L)
  /\ pc = "answer" => Flight(q, p, o, r, 0, n, t, e, T, L)

\* The types of all these.
Sorts(q, p, r, n, t, e, T) ==
  /\ q \in Seq(ToServer) /\ p \in Seq(ToClient) /\ r \in Nat /\ n \in Nat \ {0}
  /\ t \in Nat /\ e \in Nat /\ T \in Nat

LEMMA UnderwayMore ==
  ASSUME NEW q, NEW p, NEW o, NEW r, NEW pc,
         NEW n, NEW t, NEW e, NEW T, NEW L, Sorts(q, p, r, n, t, e, T),
         Underway(q, p, o, r, pc, n, t, e, T, L)
  PROVE  Underway(q, p, o, r, pc, n, t, e, T + 1, L)
<1>0. /\ q \in Seq(ToServer) /\ p \in Seq(ToClient) /\ r \in Nat /\ n \in Nat \ {0}
      /\ t \in Nat /\ e \in Nat /\ T \in Nat
  BY DEF Sorts
<1> USE <1>0
<1>1. ASSUME NEW u \in {0, 1}, Flight(q, p, o, r, u, n, t, e, T, L)
      PROVE  Flight(q, p, o, r, u, n, t, e, T + 1, L)
  BY ONLY <1>0, <1>1, u \in {0, 1}, FlightMore, ZenonT(30)
<1>2. T \in Int /\ T + 1 \in Int /\ T <= T + 1
  OBVIOUS
<1>3. Loose(q, p, o, r, T) => Loose(q, p, o, r, T + 1)
  BY <1>2, LooseMore
<1> QED
  BY <1>1, <1>3 DEF Underway

\* The server sends output of its shell.
LEMMA UnderwayOutput ==
  ASSUME NEW q, NEW p, NEW o, NEW r, NEW pc,
         NEW n, NEW t, NEW e, NEW T, NEW L, Sorts(q, p, r, n, t, e, T),
         Underway(q, p, o, r, pc, n, t, e, T, L), NEW p2, Speaks(p, p2)
  PROVE  Underway(q, p2, o, r, pc, n, t, e, T, L)
<1>0. /\ q \in Seq(ToServer) /\ p \in Seq(ToClient) /\ r \in Nat /\ n \in Nat \ {0}
      /\ t \in Nat /\ e \in Nat /\ T \in Nat
  BY DEF Sorts
<1> USE <1>0
<1>1. ASSUME NEW u \in {0, 1}, Flight(q, p, o, r, u, n, t, e, T, L)
      PROVE  Flight(q, p2, o, r, u, n, t, e, T, L)
  BY ONLY <1>0, <1>1, u \in {0, 1}, Speaks(p, p2), FlightOutput, ZenonT(30)
<1>2. T \in Int /\ T <= T
  OBVIOUS
<1>3. Loose(q, p, o, r, T) => Loose(q, p2, o, r, T)
  BY <1>2, LooseAnswered DEF Speaks
<1> QED
  BY <1>1, <1>3 DEF Underway

\* A frame to the client is lost.
LEMMA UnderwayUntold ==
  ASSUME NEW q, NEW p, NEW o, NEW r, NEW pc,
         NEW n, NEW t, NEW e, NEW T, NEW L, Sorts(q, p, r, n, t, e, T),
         Underway(q, p, o, r, pc, n, t, e, T, L), p # <<>>
  PROVE  Underway(q, Tail(p), o, r, pc, n, t, e, T + 1, L)
<1>0. /\ q \in Seq(ToServer) /\ p \in Seq(ToClient) /\ r \in Nat /\ n \in Nat \ {0}
      /\ t \in Nat /\ e \in Nat /\ T \in Nat
  BY DEF Sorts
<1> USE <1>0
<1>1. ASSUME NEW u \in {0, 1}, Flight(q, p, o, r, u, n, t, e, T, L)
      PROVE  Flight(q, Tail(p), o, r, u, n, t, e, T + 1, L)
  BY ONLY <1>0, <1>1, u \in {0, 1}, p # <<>>, FlightUntold, ZenonT(30)
<1>2. T \in Int /\ T + 1 \in Int /\ T <= T + 1 /\ Tail(p) \in Seq(ToClient)
  BY Shifted
<1>3. ASSUME Loose(q, p, o, r, T)
      PROVE  Loose(q, Tail(p), o, r, T + 1)
  <2>1. Loose(q, Tail(p), o, r, T)
    BY <1>2, <1>3, LooseRead
  <2> QED
    BY <1>2, <2>1, LooseMore
<1> QED
  BY <1>1, <1>3 DEF Underway

\* A frame to the server is lost or dropped.
LEMMA UnderwayDropped ==
  ASSUME NEW q, NEW p, NEW o, NEW r, NEW pc,
         NEW n, NEW t, NEW e, NEW T, NEW L, Sorts(q, p, r, n, t, e, T),
         Underway(q, p, o, r, pc, n, t, e, T, L), q # <<>>, ~ Name(q[1])
  PROVE  Underway(Tail(q), p, o, r, pc, n, t, e, T + 1, L)
<1>0. /\ q \in Seq(ToServer) /\ p \in Seq(ToClient) /\ r \in Nat /\ n \in Nat \ {0}
      /\ t \in Nat /\ e \in Nat /\ T \in Nat
  BY DEF Sorts
<1> USE <1>0
<1>1. ASSUME NEW u \in {0, 1}, Flight(q, p, o, r, u, n, t, e, T, L)
      PROVE  Flight(Tail(q), p, o, r, u, n, t, e, T + 1, L)
  BY ONLY <1>0, <1>1, u \in {0, 1}, q # <<>>, ~ Name(q[1]), FlightDropped, ZenonT(30)
<1>2. T \in Int /\ T + 1 \in Int /\ T - 1 \in Int /\ T <= T + 1 /\ T - 1 <= T + 1
      /\ Tail(q) \in Seq(ToServer) /\ r <= r
  BY Shifted
<1>3. ASSUME Loose(q, p, o, r, T)
      PROVE  Loose(Tail(q), p, o, r, T + 1)
  <2>1. PICK y \in {T, T - 1} : Loose(Tail(q), p, o, r, y)
    BY <1>2, <1>3, LooseTaken
  <2>2. y \in Int /\ y <= T + 1
    BY <1>2
  <2> QED
    BY <1>2, <2>1, <2>2, LooseMore
<1> QED
  BY <1>1, <1>3 DEF Underway

\* The server opens a file, or closes it.
LEMMA UnderwayDone ==
  ASSUME NEW q, NEW p, NEW o, NEW o2, NEW r,
         NEW r2 \in Nat, NEW pc,
         NEW n, NEW t, NEW e, NEW T, NEW L, Sorts(q, p, r, n, t, e, T),
         Underway(q, p, o, r, pc, n, t, e, T, L), q # <<>>,
         Opens(q[1], o, r, o2, r2)
  PROVE  Underway(Tail(q), p, o2, r2, pc, n, t, e, T, L)
<1>0. /\ q \in Seq(ToServer) /\ p \in Seq(ToClient) /\ r \in Nat /\ n \in Nat \ {0}
      /\ t \in Nat /\ e \in Nat /\ T \in Nat
  BY DEF Sorts
<1> USE <1>0
<1>1. ASSUME NEW u \in {0, 1}, Flight(q, p, o, r, u, n, t, e, T, L)
      PROVE  Flight(Tail(q), p, o2, r2, u, n, t, e, T, L)
  <2>1. Queues(q, p, r, u, n, t, T)
    BY DEF Queues
  <2> QED
    BY ONLY <1>1, <2>1, e \in Nat, r2 \in Nat, Opens(q[1], o, r, o2, r2), FlightDone
<1>2. T \in Int /\ ~ Chunk(q[1]) /\ (Name(q[1]) \/ (o2 => o /\ r <= r2))
  BY DEF Name, End, Chunk, Opens
<1>3. Loose(q, p, o, r, T) => Loose(Tail(q), p, o2, r2, T)
  BY <1>2, LooseTaken
<1> QED
  BY <1>1, <1>3 DEF Underway

\* It takes a chunk: the one the client waits for.
LEMMA UnderwayTaken ==
  ASSUME NEW q, NEW p, NEW o, NEW r,
         NEW pc \in {"file", "done", "chunk", "answer"},
         NEW n, NEW t, NEW e, NEW T, NEW L, Sorts(q, p, r, n, t, e, T),
         Underway(q, p, o, r, pc, n, t, e, T, L), q # <<>>,
         Takes(q[1], o, r), NEW p2, Confirms(p, p2, r), NEW r2, r2 = r + 1
  PROVE  /\ pc \in {"chunk", "answer"} /\ \A k \in 1 .. Len(q) : ~ Name(q[k])
         /\ Underway(Tail(q), p2, o, r2, pc, n, t, e, T, L)
<1>0. /\ q \in Seq(ToServer) /\ p \in Seq(ToClient) /\ r \in Nat /\ n \in Nat \ {0}
      /\ t \in Nat /\ e \in Nat /\ T \in Nat
  BY DEF Sorts
<1> USE <1>0
<1>1. ASSUME NEW u \in {0, 1}, Flight(q, p, o, r, u, n, t, e, T, L)
      PROVE  /\ \A k \in 1 .. Len(q) : ~ Name(q[k])
             /\ Flight(Tail(q), p2, o, r2, u, n, t, e, T, L)
  <2>1. Queues(q, p, r, u, n, t, T)
    BY DEF Queues
  <2> QED
    BY ONLY <1>1, <2>1, e \in Nat, Takes(q[1], o, r), Confirms(p, p2, r), r2 = r + 1, FlightTaken
<1>2. ~ Loose(q, p, o, r, T)
  <2>1. Chunk(q[1]) /\ o /\ q[1].seq = r
    BY DEF Takes
  <2>2. Loose(q, p, o, r, T) => (o => q[1].seq # r)
    BY <2>1, LooseRefused
  <2> QED
    BY <2>1, <2>2
<1>3. pc \in {"chunk", "answer"}
  BY <1>2 DEF Underway
<1> QED
  BY <1>1, <1>3 DEF Underway

\* Or refuses it.
LEMMA UnderwayRefused ==
  ASSUME NEW q, NEW p, NEW o, NEW r, NEW pc,
         NEW n, NEW t, NEW e, NEW T, NEW L, Sorts(q, p, r, n, t, e, T),
         Underway(q, p, o, r, pc, n, t, e, T, L), q # <<>>,
         NEW p2 \in Seq(ToClient), Refuses(q[1], o, r, p, p2)
  PROVE  Underway(Tail(q), p2, o, r, pc, n, t, e, T, L)
<1>0. /\ q \in Seq(ToServer) /\ p \in Seq(ToClient) /\ r \in Nat /\ n \in Nat \ {0}
      /\ t \in Nat /\ e \in Nat /\ T \in Nat
  BY DEF Sorts
<1> USE <1>0
<1>1. ASSUME NEW u \in {0, 1}, Flight(q, p, o, r, u, n, t, e, T, L)
      PROVE  Flight(Tail(q), p2, o, r, u, n, t, e, T, L)
  <2>1. Queues(q, p, r, u, n, t, T)
    BY DEF Queues
  <2> QED
    BY ONLY <1>1, <2>1, e \in Nat, p2 \in Seq(ToClient), Refuses(q[1], o, r, p, p2),
            FlightRefused
<1>2. T \in Int /\ T - 1 \in Int /\ T - 1 <= T /\ T - 1 < T /\ Tail(q) \in Seq(ToServer)
      /\ r <= r
  BY Shifted
<1>3. ASSUME Loose(q, p, o, r, T)
      PROVE  Loose(Tail(q), p2, o, r, T)
  <2>0. Chunk(q[1])
    BY DEF Refuses
  <2>1. Loose(Tail(q), p, o, r, T - 1)
    BY <1>2, <1>3, <2>0, LooseTaken
  <2>2. p2 = p \/ \E m \in ToClient : m.type = "recv_err_msg" /\ p2 = Append(p, m)
    BY DEF Refuses
  <2>3. CASE p2 = p
    BY <1>2, <2>1, <2>3, LooseMore
  <2>4. ASSUME NEW m \in ToClient, m.type = "recv_err_msg", p2 = Append(p, m)
        PROVE  Loose(Tail(q), p2, o, r, T)
    <3>1. m.type \in Reply
      BY <2>4 DEF Reply
    <3> QED
      BY <1>2, <2>1, <2>4, <3>1, LooseAnswered
  <2> QED
    BY <2>2, <2>3, <2>4
<1> QED
  BY <1>1, <1>3 DEF Underway

\* The client names a file, sends a chunk, or the end.
LEMMA UnderwayBegins ==
  ASSUME NEW q, NEW p, NEW o, NEW r, NEW n, NEW t, NEW e, NEW T, NEW L, NEW L2,
         Sorts(q, p, r, n, t, e, T), Underway(q, p, o, r, "file", n, t, e, T, L),
         NEW m \in ToServer, Name(m), NEW q2, q2 = Append(q, m)
  PROVE  Underway(q2, p, o, r, "chunk", 1, 0, 0, T, L2)
<1>0. q \in Seq(ToServer) /\ p \in Seq(ToClient) /\ r \in Nat /\ T \in Nat
  BY DEF Sorts
<1>1. Loose(q, p, o, r, T)
  BY DEF Underway
<1>2. Flight(q2, p, o, r, 1, 1, 0, 0, T, L2)
  BY <1>0, <1>1, FlightBegins
<1> QED
  BY <1>2 DEF Underway

LEMMA UnderwaySent ==
  ASSUME NEW q, NEW p, NEW o, NEW r, NEW n, NEW t, NEW e, NEW T, NEW L,
         Sorts(q, p, r, n, t, e, T), Underway(q, p, o, r, "chunk", n, t, e, T, L), n <= L,
         NEW m \in ToServer, Chunk(m), m.seq = n, NEW q2, q2 = Append(q, m)
  PROVE  Underway(q2, p, o, r, "answer", n, t, e, T, L)
<1>0. /\ q \in Seq(ToServer) /\ p \in Seq(ToClient) /\ r \in Nat /\ n \in Nat \ {0}
      /\ t \in Nat /\ e \in Nat /\ T \in Nat
  BY DEF Sorts
<1>1. Flight(q, p, o, r, 1, n, t, e, T, L)
  BY DEF Underway
<1>2. Flight(q2, p, o, r, 0, n, t, e, T, L)
  BY <1>0, <1>1, FlightSent
<1> QED
  BY <1>2 DEF Underway

LEMMA UnderwayEnds ==
  ASSUME NEW q, NEW p, NEW o, NEW r, NEW n, NEW t, NEW e, NEW T, NEW L \in Nat, NEW L2,
         Sorts(q, p, r, n, t, e, T), Underway(q, p, o, r, "chunk", n, t, e, T, L), n > L,
         NEW m \in ToServer, End(m), NEW q2, q2 = Append(q, m)
  PROVE  /\ Underway(q2, p, o, r, "file", n, t, e, T, L2)
         /\ Ready(q, o, r, Len(q) + 1, n)
<1>0. /\ q \in Seq(ToServer) /\ p \in Seq(ToClient) /\ r \in Nat /\ n \in Nat \ {0}
      /\ t \in Nat /\ e \in Nat /\ T \in Nat
  BY DEF Sorts
<1>1. Flight(q, p, o, r, 1, n, t, e, T, L)
  BY DEF Underway
<1>2. /\ Ready(q, o, r, Len(q) + 1, n)
      /\ \A x \in ToServer : End(x) => Loose(Append(q, x), p, o, r, T)
  BY <1>0, <1>1, FlightEnds
<1>3. Loose(q2, p, o, r, T)
  BY <1>2
<1> QED
  BY <1>2, <1>3 DEF Underway

\* It reads the answer to a chunk, or no such answer.
LEMMA UnderwayTold ==
  ASSUME NEW q, NEW p, NEW o, NEW r, NEW n, NEW t, NEW e, NEW T, NEW L,
         Sorts(q, p, r, n, t, e, T), Underway(q, p, o, r, "answer", n, t, e, T, L),
         p # <<>>, IsFor(p[1], n), NEW n2, n2 = n + 1
  PROVE  Underway(q, Tail(p), o, r, "chunk", n2, 0, 0, T, L)
<1>0. /\ q \in Seq(ToServer) /\ p \in Seq(ToClient) /\ r \in Nat /\ n \in Nat \ {0}
      /\ t \in Nat /\ e \in Nat /\ T \in Nat
  BY DEF Sorts
<1>1. Flight(q, p, o, r, 0, n, t, e, T, L)
  BY DEF Underway
<1>2. Flight(q, Tail(p), o, r, 1, n2, 0, 0, T, L)
  BY <1>0, <1>1, FlightTold
<1> QED
  BY <1>2 DEF Underway

LEMMA UnderwayRead ==
  ASSUME NEW q, NEW p, NEW o, NEW r, NEW n, NEW t, NEW e, NEW T, NEW L,
         Sorts(q, p, r, n, t, e, T), Underway(q, p, o, r, "answer", n, t, e, T, L),
         p # <<>>, ~ IsFor(p[1], n)
  PROVE  /\ Underway(q, Tail(p), o, r, "answer", n, t, e, T, L)
         /\ p[1].type \in Reply => Retried(q, Tail(p), o, r, n, t, e, T, L)
<1>0. /\ q \in Seq(ToServer) /\ p \in Seq(ToClient) /\ r \in Nat /\ n \in Nat \ {0}
      /\ t \in Nat /\ e \in Nat /\ T \in Nat /\ 0 \in {0, 1}
  BY DEF Sorts
<1>1. Flight(q, p, o, r, 0, n, t, e, T, L)
  BY DEF Underway
<1>2. /\ Flight(q, Tail(p), o, r, 0, n, t, e, T, L)
      /\ p[1].type \in Reply => Retried(q, Tail(p), o, r, n, t, e, T, L)
  BY <1>0, <1>1, FlightRead
<1> QED
  BY <1>2 DEF Underway

\* Or nothing comes.
LEMMA UnderwayNone ==
  ASSUME NEW q, NEW p, NEW o, NEW r, NEW n, NEW t, NEW e, NEW T, NEW L,
         Sorts(q, p, r, n, t, e, T), Underway(q, p, o, r, "answer", n, t, e, T, L)
  PROVE  /\ q = <<>> /\ p = <<>> => Retried(q, p, o, r, n, t, e, T, L)
         /\ Retried(q, p, o, r, n, t, e, T + 1, L)
<1>0. /\ q \in Seq(ToServer) /\ p \in Seq(ToClient) /\ r \in Nat /\ n \in Nat \ {0}
      /\ t \in Nat /\ e \in Nat /\ T \in Nat
  BY DEF Sorts
<1>1. Flight(q, p, o, r, 0, n, t, e, T, L)
  BY DEF Underway
<1>2. q = <<>> /\ p = <<>> => Retried(q, p, o, r, n, t, e, T, L)
  BY <1>0, <1>1, FlightNone
<1>3. Retried(q, p, o, r, n, t, e, T + 1, L)
  BY <1>0, <1>1, FlightLate
<1> QED
  BY <1>2, <1>3

\* With fewer mishaps than sends of a chunk, it does not give up the file.
LEMMA UnderwayAgain ==
  ASSUME NEW q, NEW p, NEW o, NEW r, NEW n, NEW t \in Nat, NEW e \in Nat, NEW T \in Nat, NEW L,
         Retried(q, p, o, r, n, t, e, T, L), T < Tries, Tries <= MaxErrors + 1
  PROVE  IF t + 1 < Tries THEN Underway(q, p, o, r, "chunk", n, t + 1, e, T, L)
         ELSE e # MaxErrors /\ Underway(q, p, o, r, "chunk", n + 1, 0, e + 1, T, L)
<1>0. Tries \in Nat /\ MaxErrors \in Nat
  BY ConstAssumption DEF ConstAssumption
<1>1. CASE t + 1 < Tries
  BY <1>1 DEF Retried, Underway
<1>2. CASE ~ (t + 1 < Tries)
  <2>1. ~ (t + 1 <= T)
    BY <1>0, <1>2
  <2>2. e + 1 <= T /\ Flight(q, p, o, r, 1, n + 1, 0, e + 1, T, L)
    BY <2>1 DEF Retried
  <2>3. e # MaxErrors
    BY <1>0, <2>2
  <2>4. Underway(q, p, o, r, "chunk", n + 1, 0, e + 1, T, L)
    BY <2>2 DEF Underway
  <2> QED
    BY <1>2, <2>3, <2>4
<1> QED
  BY <1>1, <1>2

-----------------------------------------------------------------------------
(* A client that puts files, as long as there were fewer mishaps than a    *)
(* chunk has sends, no name was missed and the disk had room.              *)

Undisturbed == NeverFull /\ ~ NameMissed /\ trouble < Tries
Size == Working.files[client.file]
InStep == Sending => client.seq <= Size + 1 /\ (client.pc = "answer" => client.seq <= Size)
FilesOnly(q) == \A k \in 1 .. Len(q) : ~ Other(q[k])
Carrying ==
  Underway(toServer, toClient, server.receiving, server.recv, client.pc, client.seq,
           client.tries, client.errors, trouble, Size)
Motion == FilesOnly(toServer) /\ client.seq # 0 /\ InStep /\ Carrying

\* The client's files are on the disk up to the one it is at, but an empty one may
\* still have its name under way.
HasName(q, d) == \E k \in 1 .. Len(q) : Name(q[k]) /\ q[k].data = d
Nameable(d) == \E i \in 1 .. client.file : /\ d = <<session, i>>
                                           /\ i < client.file => Working.files[i] = 0
NamesRight == \A d : HasName(toServer, d) => Nameable(d)
Whole(i) == \/ disk[<<session, i>>] = Chunks(<<session, i>>, Working.files[i])
            \/ Working.files[i] = 0 /\ HasName(toServer, <<session, i>>)
FilesWhole == \A i \in DOMAIN Working.files : i < client.file => Whole(i)
AtEnd == client.pc = "done" => client.file > Len(Working.files)
Results == NamesRight /\ FilesWhole /\ AtEnd

Ongoing == Working.mode = "put" /\ Undisturbed
CarriedInv == Ongoing => Motion /\ Results

LEMMA NameOn ==
  ASSUME NEW q \in Seq(ToServer), NEW m \in ToServer, NEW q2, q2 = Append(q, m), NEW d
  PROVE  HasName(q2, d) <=> HasName(q, d) \/ (Name(m) /\ m.data = d)
<1>1. Len(q2) = Len(q) + 1 /\ Len(q) \in Nat /\ q2[Len(q) + 1] = m
      /\ \A k \in 1 .. Len(q) : q2[k] = q[k]
  BY Appended
<1>2. \A k \in 1 .. Len(q2) : k \in 1 .. Len(q) \/ k = Len(q) + 1
  BY <1>1
<1>3. Len(q) + 1 \in 1 .. Len(q2) /\ \A k \in 1 .. Len(q) : k \in 1 .. Len(q2)
  BY <1>1
<1> QED
  BY <1>1, <1>2, <1>3 DEF HasName

LEMMA NameOff ==
  ASSUME NEW q \in Seq(ToServer), q # <<>>, NEW q2, q2 = Tail(q), NEW d
  PROVE  HasName(q, d) <=> HasName(q2, d) \/ (Name(q[1]) /\ q[1].data = d)
<1>1. Len(q2) = Len(q) - 1 /\ Len(q) \in Nat \ {0}
      /\ \A k \in 1 .. Len(q) - 1 : q2[k] = q[k + 1]
  BY Shifted
<1>2. ASSUME HasName(q, d)
      PROVE  HasName(q2, d) \/ (Name(q[1]) /\ q[1].data = d)
  <2>1. PICK k \in 1 .. Len(q) : Name(q[k]) /\ q[k].data = d
    BY <1>2 DEF HasName
  <2>2. CASE k = 1
    BY <2>1, <2>2
  <2>3. CASE k # 1
    <3>1. PICK j : j = k - 1
      OBVIOUS
    <3>2. j \in 1 .. Len(q) - 1 /\ j + 1 = k
      BY <1>1, <2>3, <3>1
    <3>3. q2[j] = q[k] /\ j \in 1 .. Len(q2)
      BY <1>1, <3>2
    <3> QED
      BY <2>1, <3>3 DEF HasName
  <2> QED
    BY <2>2, <2>3
<1>3. ASSUME HasName(q2, d)
      PROVE  HasName(q, d)
  <2>1. PICK k \in 1 .. Len(q) - 1 : Name(q2[k]) /\ q2[k].data = d
    BY <1>1, <1>3 DEF HasName
  <2>2. k + 1 \in 1 .. Len(q) /\ q2[k] = q[k + 1]
    BY <1>1
  <2> QED
    BY <2>1, <2>2 DEF HasName
<1>4. 1 \in 1 .. Len(q)
  BY <1>1
<1>5. Name(q[1]) /\ q[1].data = d => HasName(q, d)
  BY <1>4 DEF HasName
<1> QED
  BY <1>2, <1>3, <1>5

LEMMA OnlyOn ==
  ASSUME NEW q \in Seq(ToServer), FilesOnly(q), NEW q2,
         \/ q2 = q
         \/ q # <<>> /\ q2 = Tail(q)
         \/ \E m \in ToServer : ~ Other(m) /\ q2 = Append(q, m)
  PROVE  FilesOnly(q2)
<1>1. CASE q # <<>> /\ q2 = Tail(q)
  <2>1. Len(q2) = Len(q) - 1 /\ Len(q) \in Nat \ {0}
        /\ \A k \in 1 .. Len(q) - 1 : q2[k] = q[k + 1]
    BY <1>1, Shifted
  <2>2. \A k \in 1 .. Len(q) - 1 : k + 1 \in 1 .. Len(q)
    BY <2>1
  <2> QED
    BY <2>1, <2>2 DEF FilesOnly
<1>2. ASSUME NEW m \in ToServer, ~ Other(m), q2 = Append(q, m)
      PROVE  FilesOnly(q2)
  <2>1. Len(q2) = Len(q) + 1 /\ Len(q) \in Nat /\ q2[Len(q) + 1] = m
        /\ \A k \in 1 .. Len(q) : q2[k] = q[k]
    BY <1>2, Appended
  <2>2. \A k \in 1 .. Len(q2) : k \in 1 .. Len(q) \/ k = Len(q) + 1
    BY <2>1
  <2> QED
    BY <1>2, <2>1, <2>2 DEF FilesOnly
<1> QED
  BY <1>1, <1>2

LEMMA CarriedSorts ==
  ASSUME Types, client.seq # 0
  PROVE  /\ Sorts(toServer, toClient, server.recv, client.seq, client.tries, client.errors,
                  trouble)
         /\ client \in ClientState /\ server \in ServerState
         /\ toServer \in Seq(ToServer) /\ toClient \in Seq(ToClient)
<1>1. /\ client \in ClientState /\ server \in ServerState /\ trouble \in Nat
      /\ toServer \in Seq(ToServer) /\ toClient \in Seq(ToClient)
  BY DEF Types, ClientTypes, ServerTypes, FrameTypes, Counts
<1>2. /\ client.seq \in Nat \ {0} /\ client.tries \in Nat /\ client.errors \in Nat
      /\ server.recv \in Nat
  BY <1>1 DEF ClientState, ServerState
<1> QED
  BY <1>1, <1>2 DEF Sorts

\* Steps that neither write a file nor take a name, and keep the client at its file.
LEMMA ResultsKept ==
  ASSUME Types, Results, UNCHANGED <<scenario, session, disk>>, client'.file = client.file,
         AtEnd',
         \/ UNCHANGED toServer
         \/ toServer # <<>> /\ toServer' = Tail(toServer) /\ ~ Name(toServer[1])
         \/ \E m \in ToServer : /\ Name(m) => m.data = <<session, client.file>>
                                /\ toServer' = Append(toServer, m)
  PROVE  Results'
<1>0. toServer \in Seq(ToServer) /\ client.file \in Nat \ {0} /\ Working' = Working
  BY DEF Types, FrameTypes, ClientTypes, ClientState, Working
<1>1. \A d : HasName(toServer, d) => HasName(toServer', d)
  <2>1. ASSUME NEW m \in ToServer, toServer' = Append(toServer, m), NEW d, HasName(toServer, d)
        PROVE  HasName(toServer', d)
    BY <1>0, <2>1, NameOn
  <2>2. ASSUME toServer # <<>>, toServer' = Tail(toServer), ~ Name(toServer[1]), NEW d,
               HasName(toServer, d)
        PROVE  HasName(toServer', d)
    BY <1>0, <2>2, NameOff
  <2> QED
    BY <2>1, <2>2
<1>2. \A d : HasName(toServer', d) => HasName(toServer, d) \/ d = <<session, client.file>>
  <2>1. ASSUME NEW m \in ToServer, toServer' = Append(toServer, m), NEW d, HasName(toServer', d),
               Name(m) => m.data = <<session, client.file>>
        PROVE  HasName(toServer, d) \/ d = <<session, client.file>>
    BY <1>0, <2>1, NameOn
  <2>2. ASSUME toServer # <<>>, toServer' = Tail(toServer), NEW d, HasName(toServer', d)
        PROVE  HasName(toServer, d)
    BY <1>0, <2>2, NameOff
  <2> QED
    BY <2>1, <2>2
<1>3. Nameable(<<session, client.file>>)
  <2>1. client.file \in 1 .. client.file /\ ~ (client.file < client.file)
    BY <1>0
  <2> QED
    BY <2>1 DEF Nameable
<1>4. \A d : Nameable(d) => Nameable(d)'
  BY <1>0 DEF Nameable
<1>5. NamesRight'
  BY <1>2, <1>3, <1>4 DEF Results, NamesRight
<1>6. \A i : Whole(i) => Whole(i)'
  BY <1>0, <1>1 DEF Whole
<1>7. FilesWhole'
  BY <1>0, <1>6 DEF Results, FilesWhole
<1> QED
  BY <1>5, <1>7 DEF Results

\* The steps of the client.
LEMMA PutFileCarried ==
  ASSUME Types, Motion, Results, PutFile
  PROVE  Motion' /\ Results'
<1>0. /\ client.seq # 0 /\ client \in ClientState /\ toServer \in Seq(ToServer)
      /\ Sorts(toServer, toClient, server.recv, client.seq, client.tries, client.errors, trouble)
  BY CarriedSorts DEF Motion
<1>1. /\ UNCHANGED <<scenario, session, server, toClient, disk, trouble>> /\ client.pc = "file"
      /\ Working' = Working
  BY DEF PutFile, Working
<1>2. Underway(toServer, toClient, server.receiving, server.recv, "file", client.seq,
               client.tries, client.errors, trouble, Size)
  BY <1>1 DEF Motion, Carrying
<1>3. CASE client.file > Len(Working.files)
  <2>1. client' = [client EXCEPT !.pc = "done"] /\ UNCHANGED toServer
    BY <1>3 DEF PutFile
  <2>2. /\ client'.pc = "done" /\ client'.seq = client.seq /\ client'.tries = client.tries
        /\ client'.errors = client.errors /\ client'.file = client.file
    BY <1>0, <2>1 DEF ClientState
  <2>3. Size' = Size /\ InStep'
    BY <1>1, <2>2 DEF Size, InStep, Sending
  <2>4. Carrying'
    <3>1. Underway(toServer, toClient, server.receiving, server.recv, "done", client.seq,
                   client.tries, client.errors, trouble, Size)
      BY <1>2 DEF Underway
    <3> QED
      BY <1>1, <2>1, <2>2, <2>3, <3>1 DEF Carrying
  <2>5. AtEnd'
    BY <1>1, <1>3, <2>2 DEF AtEnd
  <2>6. Results'
    BY <1>1, <2>1, <2>2, <2>5, ResultsKept
  <2> QED
    BY <1>0, <2>1, <2>2, <2>3, <2>4, <2>6 DEF Motion
<1>4. CASE ~ (client.file > Len(Working.files))
  <2>1. client' = [client EXCEPT !.pc = "chunk", !.seq = 1, !.tries = 0, !.errors = 0]
    BY <1>4 DEF PutFile
  <2>2. /\ client'.pc = "chunk" /\ client'.seq = 1 /\ client'.tries = 0
        /\ client'.errors = 0 /\ client'.file = client.file
    BY <1>0, <2>1 DEF ClientState
  <2>3. PICK m \in ToServer : /\ Name(m) /\ m.data = <<session, client.file>>
                              /\ toServer' = Append(toServer, m)
    BY <2>2, PutFileEffect
  <2>4. Size' = Size /\ InStep'
    <3>1. client.file \in DOMAIN Working.files
      <4>1. Working.files \in Seq(Nat)
        BY Scene DEF Types
      <4>2. client.file \in Nat \ {0}
        BY <1>0 DEF ClientState
      <4> QED
        BY <1>4, <4>1, <4>2
    <3>2. Size \in Nat
      BY <3>1, Scene DEF Size, Types
    <3> QED
      BY <1>1, <2>2, <3>2 DEF Size, InStep, Sending
  <2>5. Carrying'
    <3>1. Underway(toServer', toClient, server.receiving, server.recv, "chunk", 1, 0, 0,
                   trouble, Size)
      BY <1>0, <1>2, <2>3, UnderwayBegins
    <3> QED
      BY <1>1, <2>2, <2>4, <3>1 DEF Carrying
  <2>6. FilesOnly(toServer')
    BY <1>0, <2>3, OnlyOn DEF Motion, Other
  <2>7. Results'
    <3>1. AtEnd'
      BY <2>2 DEF AtEnd
    <3> QED
      BY <1>1, <2>2, <2>3, <3>1, ResultsKept
  <2> QED
    BY <2>2, <2>4, <2>5, <2>6, <2>7 DEF Motion
<1> QED
  BY <1>3, <1>4

LEMMA SendChunkCarried ==
  ASSUME Types, Undisturbed, FoundInv, WrittenInv, Motion, Results, SendChunk
  PROVE  Motion' /\ Results'
<1>0. /\ client.seq # 0 /\ client \in ClientState /\ toServer \in Seq(ToServer)
      /\ Sorts(toServer, toClient, server.recv, client.seq, client.tries, client.errors, trouble)
      /\ client.seq \in Nat /\ server.recv \in Nat /\ client.file \in Nat \ {0}
  BY CarriedSorts DEF Motion, ClientState, ServerState
<1>1. /\ UNCHANGED <<scenario, session, server, toClient, disk, trouble>> /\ client.pc = "chunk"
      /\ Working' = Working
  BY DEF SendChunk, Working
<1>2. Underway(toServer, toClient, server.receiving, server.recv, "chunk", client.seq,
               client.tries, client.errors, trouble, Size)
  BY <1>1 DEF Motion, Carrying
<1>3. Working.mode = "put" /\ Sending
  BY SendChunkEffect
<1>4. Size \in Nat /\ client.file \in DOMAIN Working.files
  <2>1. client.file \in DOMAIN Working.files
    BY <1>3 DEF Types, ClientTypes
  <2> QED
    BY <2>1, Scene DEF Size, Types
<1>5. CASE ~ (client.seq > Size)
  <2>1. client' = [client EXCEPT !.pc = "answer"]
    BY <1>5 DEF SendChunk, Size
  <2>2. /\ client'.pc = "answer" /\ client'.seq = client.seq /\ client'.tries = client.tries
        /\ client'.errors = client.errors /\ client'.file = client.file
    BY <1>0, <2>1 DEF ClientState
  <2>3. PICK m \in ToServer : Chunk(m) /\ m.seq = client.seq /\ toServer' = Append(toServer, m)
    BY <2>2, SendChunkEffect
  <2>4. Size' = Size /\ InStep' /\ client.seq <= Size
    <3>1. client.seq <= Size
      BY <1>0, <1>4, <1>5
    <3> QED
      BY <1>0, <1>1, <1>4, <2>2, <3>1 DEF Size, InStep, Sending
  <2>5. Carrying'
    <3>1. Underway(toServer', toClient, server.receiving, server.recv, "answer", client.seq,
                   client.tries, client.errors, trouble, Size)
      BY <1>0, <1>2, <2>3, <2>4, UnderwaySent
    <3> QED
      BY <1>1, <2>2, <2>4, <3>1 DEF Carrying
  <2>6. FilesOnly(toServer') /\ ~ Name(m)
    BY <1>0, <2>3, OnlyOn DEF Motion, Other, Chunk, Name
  <2>7. Results'
    <3>1. AtEnd'
      BY <2>2 DEF AtEnd
    <3> QED
      BY <1>1, <2>2, <2>3, <2>6, <3>1, ResultsKept
  <2> QED
    BY <1>0, <2>2, <2>4, <2>5, <2>6, <2>7 DEF Motion
<1>6. CASE client.seq > Size
  <2>0. PICK f \in Nat : f = client.file + 1 /\ client.file < f
    BY <1>0
  <2>1. client' = [client EXCEPT !.pc = "file", !.file = f]
    BY <1>6, <2>0 DEF SendChunk, Size
  <2>2. /\ client'.pc = "file" /\ client'.seq = client.seq /\ client'.tries = client.tries
        /\ client'.errors = client.errors /\ client'.file = f
    BY <1>0, <2>1 DEF ClientState
  <2>3. PICK m \in ToServer : End(m) /\ toServer' = Append(toServer, m)
    BY <2>2, SendChunkEffect
  <2>4. InStep' /\ AtEnd'
    BY <2>2 DEF InStep, Sending, AtEnd
  <2>5. /\ Underway(toServer', toClient, server.receiving, server.recv, "file", client.seq,
                    client.tries, client.errors, trouble, Size')
        /\ Ready(toServer, server.receiving, server.recv, Len(toServer) + 1, client.seq)
    BY <1>0, <1>2, <1>4, <1>6, <2>3, UnderwayEnds
  <2>6. Carrying'
    BY <1>1, <2>2, <2>5 DEF Carrying
  <2>7. FilesOnly(toServer') /\ ~ Name(m)
    BY <1>0, <2>3, OnlyOn DEF Motion, Other, End, Name
  <2>8. \A d : HasName(toServer', d) <=> HasName(toServer, d)
    BY <1>0, <2>3, <2>7, NameOn
  <2>9. Named(toServer, server.fd, Len(toServer) + 1, <<session, client.file>>)
    <3>1. Mild /\ ~ NameMissed
      BY DEF Undisturbed, Mild
    <3> QED
      BY <1>3, <3>1 DEF FoundInv, Found, Finds
  <2>10. Len(toServer) \in Nat /\ Len(toServer) + 1 - 1 = Len(toServer)
    BY <1>0
  <2>11. /\ Size = 0 \/ ~ HasName(toServer, <<session, client.file>>)
         /\ Whole(client.file)
    <3>1. CASE /\ client.seq = 1 /\ Len(toServer) + 1 > 1
               /\ Name(toServer[Len(toServer)])
      <4>1. Size = 0 /\ Len(toServer) \in 1 .. Len(toServer)
        BY <1>4, <1>6, <2>10, <3>1
      <4>2. PICK j \in 1 .. Len(toServer) :
              /\ Name(toServer[j]) /\ toServer[j].data = <<session, client.file>>
        BY <2>9, <2>10, <3>1, <4>1 DEF Named
      <4> QED
        BY <4>1, <4>2 DEF Whole, HasName, Size
    <3>2. CASE /\ server.receiving /\ server.recv = client.seq
               /\ \A k \in 1 .. Len(toServer) : ~ Name(toServer[k])
      <4>1. server.fd = <<session, client.file>>
        BY <2>9, <2>10, <3>2 DEF Named
      <4>2. disk[server.fd] = Chunks(server.fd, server.recv - 1)
        BY <3>2 DEF WrittenInv, Written, Undisturbed, Mild
      <4>3. server.recv - 1 = Size
        BY <1>0, <1>3, <1>4, <1>6, <3>2 DEF Motion, InStep
      <4>4. ~ HasName(toServer, <<session, client.file>>)
        BY <3>2 DEF HasName
      <4> QED
        BY <4>1, <4>2, <4>3, <4>4 DEF Whole, Size
    <3> QED
      BY <2>5, <2>10, <3>1, <3>2 DEF Ready
  <2>12. NamesRight'
    <3>1. ASSUME NEW d, HasName(toServer, d)
          PROVE  Nameable(d)'
      <4>1. PICK i \in 1 .. client.file : /\ d = <<session, i>>
                                          /\ i < client.file => Working.files[i] = 0
        BY <3>1 DEF Results, NamesRight, Nameable
      <4>2. i \in 1 .. f /\ (i = client.file \/ i < client.file)
        BY <1>0, <2>0
      <4>3. Working.files[i] = 0
        BY <2>11, <3>1, <4>1, <4>2 DEF Size
      <4> QED
        BY <1>1, <2>2, <4>1, <4>2, <4>3 DEF Nameable
    <3> QED
      BY <2>8, <3>1 DEF NamesRight
  <2>13. FilesWhole'
    <3>1. ASSUME NEW i \in DOMAIN Working.files, i < f
          PROVE  Whole(i)
      <4>1. i \in Nat
        <5>1. Working.files \in Seq(Nat)
          BY Scene DEF Types
        <5> QED
          BY <5>1
      <4>2. i = client.file \/ i < client.file
        BY <1>0, <2>0, <3>1, <4>1
      <4> QED
        BY <2>11, <4>2 DEF Results, FilesWhole
    <3>2. \A i : Whole(i) => Whole(i)'
      BY <1>1, <2>8 DEF Whole
    <3> QED
      BY <1>1, <2>2, <3>1, <3>2 DEF FilesWhole
  <2> QED
    BY <1>0, <2>2, <2>4, <2>6, <2>7, <2>12, <2>13 DEF Motion, Results
<1> QED
  BY <1>5, <1>6

\* What an answer, or none, makes of the client: it waits for another, goes on with
\* the next chunk, or tries again.
LEMMA AnswerCarried ==
  ASSUME Types, Working.mode = "put", Tries <= MaxErrors + 1,
         trouble' \in Nat, trouble' < Tries,
         Motion, Results, ReadAnswer \/ NoAnswer \/ NoAnswerYet
  PROVE  Motion' /\ Results'
<1>0. /\ client.seq # 0 /\ client \in ClientState /\ toServer \in Seq(ToServer)
      /\ Sorts(toServer, toClient, server.recv, client.seq, client.tries, client.errors, trouble)
      /\ client.seq \in Nat /\ client.file \in Nat \ {0}
      /\ client.tries \in Nat /\ client.errors \in Nat /\ toClient \in Seq(ToClient)
  BY CarriedSorts DEF Motion, ClientState
<1>1. /\ UNCHANGED <<scenario, session, server, toServer, disk>> /\ client.pc = "answer"
      /\ Working' = Working
  BY AnswerEffect DEF Working
<1>2. Underway(toServer, toClient, server.receiving, server.recv, "answer", client.seq,
               client.tries, client.errors, trouble, Size)
  BY <1>1 DEF Motion, Carrying
<1>3. Sending /\ client.seq <= Size /\ Size \in Nat
  <2>1. Sending
    BY <1>1 DEF Sending
  <2>2. client.file \in DOMAIN Working.files
    BY <2>1 DEF Types, ClientTypes
  <2>3. Size \in Nat
    BY <2>2, Scene DEF Size, Types
  <2> QED
    BY <1>1, <2>1, <2>3 DEF Motion, InStep
<1> DEFINE q == toServer
           o == server.receiving
           r == server.recv
           n == client.seq
           t == client.tries
           e == client.errors
<1>4. PICK p, T, L : p = toClient' /\ T = trouble' /\ T \in Nat /\ L = Size
  OBVIOUS
<1>5. \/ client' = client /\ Underway(q, p, o, r, "answer", n, t, e, T, L)
      \/ client' = Answered(client) /\ Underway(q, p, o, r, "chunk", n + 1, 0, 0, T, L)
      \/ client' = Failed(client) /\ Retried(q, p, o, r, n, t, e, T, L)
  <2>1. CASE ReadAnswer
    <3>1. PICK m : m = toClient[1]
      OBVIOUS
    <3>2. /\ toClient # <<>> /\ p = Tail(toClient) /\ T = trouble /\ Head(toClient) = m
          /\ client' = IF m.type \notin Reply THEN client
                       ELSE IF IsFor(m, n) THEN Answered(client) ELSE Failed(client)
      BY <1>0, <1>4, <2>1, <3>1, Shifted DEF ReadAnswer
    <3>3. CASE IsFor(m, n)
      <4>1. m.type \in Reply
        BY <3>3 DEF IsFor, Reply
      <4>2. PICK n2 : n2 = n + 1
        OBVIOUS
      <4>3. Underway(q, p, o, r, "chunk", n2, 0, 0, T, L)
        BY <1>0, <1>2, <1>4, <3>1, <3>2, <3>3, <4>2, UnderwayTold
      <4> QED
        BY <3>2, <3>3, <4>1, <4>2, <4>3
    <3>4. CASE ~ IsFor(m, n)
      <4>1. /\ Underway(q, p, o, r, "answer", n, t, e, T, L)
            /\ m.type \in Reply => Retried(q, p, o, r, n, t, e, T, L)
        BY <1>0, <1>2, <1>4, <3>1, <3>2, <3>4, UnderwayRead
      <4> QED
        BY <3>2, <3>4, <4>1
    <3> QED
      BY <3>3, <3>4
  <2>2. CASE NoAnswer
    <3>1. q = <<>> /\ toClient = <<>> /\ p = toClient /\ T = trouble /\ client' = Failed(client)
      BY <1>4, <2>2 DEF NoAnswer, NothingComes
    <3>2. Retried(q, p, o, r, n, t, e, T, L)
      BY <1>0, <1>2, <1>4, <3>1, UnderwayNone
    <3> QED
      BY <3>1, <3>2
  <2>3. CASE NoAnswerYet
    <3>1. p = toClient /\ T = trouble + 1 /\ client' = Failed(client)
      BY <1>4, <2>3 DEF NoAnswerYet
    <3>2. Retried(q, p, o, r, n, t, e, T, L)
      BY <1>0, <1>2, <1>4, <3>1, UnderwayNone
    <3> QED
      BY <3>1, <3>2
  <2> QED
    BY <2>1, <2>2, <2>3
<1>6. \E pc2 \in {"chunk", "answer"}, n2 \in Nat, t2 \in Nat, e2 \in Nat :
        /\ Underway(q, p, o, r, pc2, n2, t2, e2, T, L)
        /\ n2 # 0 /\ n2 <= L + 1 /\ (pc2 = "answer" => n2 <= L)
        /\ client'.pc = pc2 /\ client'.seq = n2 /\ client'.tries = t2 /\ client'.errors = e2
        /\ client'.file = client.file
  <2>a. n \in Nat /\ t \in Nat /\ e \in Nat /\ L \in Nat /\ n # 0 /\ n <= L
    BY <1>0, <1>3, <1>4
  <2>b. PICK n2 \in Nat, t2 \in Nat, e2 \in Nat : n2 = n + 1 /\ t2 = t + 1 /\ e2 = e + 1
    BY ONLY <2>a
  <2>0. /\ n2 = n + 1 /\ t2 = t + 1 /\ e2 = e + 1 /\ n2 # 0 /\ n2 <= L + 1
        /\ n # 0 /\ n <= L + 1 /\ n <= L
    BY ONLY <2>a, <2>b
  <2>1. CASE client' = client /\ Underway(q, p, o, r, "answer", n, t, e, T, L)
    BY <1>0, <1>1, <2>0, <2>1
  <2>2. CASE client' = Answered(client) /\ Underway(q, p, o, r, "chunk", n + 1, 0, 0, T, L)
    <3>1. client' = [client EXCEPT !.pc = "chunk", !.seq = n2, !.tries = 0, !.errors = 0]
      BY <2>0, <2>2 DEF Answered, NextChunk
    <3>2. /\ client'.pc = "chunk" /\ client'.seq = n2 /\ client'.tries = 0 /\ client'.errors = 0
          /\ client'.file = client.file
      BY <1>0, <3>1 DEF ClientState
    <3> QED
      BY <2>0, <2>2, <3>2
  <2>3. CASE client' = Failed(client) /\ Retried(q, p, o, r, n, t, e, T, L)
    <3>1. IF t + 1 < Tries THEN Underway(q, p, o, r, "chunk", n, t + 1, e, T, L)
          ELSE e # MaxErrors /\ Underway(q, p, o, r, "chunk", n + 1, 0, e + 1, T, L)
      BY <1>0, <1>4, <2>3, UnderwayAgain
    <3>2. CASE t2 < Tries
      <4>1. client' = [client EXCEPT !.pc = "chunk", !.tries = t2]
        BY <2>0, <2>3, <3>2 DEF Failed, UpToTries, Again
      <4>2. /\ client'.pc = "chunk" /\ client'.seq = n /\ client'.tries = t2
            /\ client'.errors = e /\ client'.file = client.file
        BY <1>0, <4>1 DEF ClientState
      <4>3. Underway(q, p, o, r, "chunk", n, t2, e, T, L)
        BY <2>0, <3>1, <3>2
      <4> QED
        BY <1>0, <2>0, <4>2, <4>3
    <3>3. CASE ~ (t2 < Tries)
      <4>1. e # MaxErrors /\ Underway(q, p, o, r, "chunk", n2, 0, e2, T, L)
        BY <2>0, <3>1, <3>3
      <4>2. client' = [client EXCEPT !.pc = "chunk", !.seq = n2, !.tries = 0, !.errors = e2]
        BY <2>0, <2>3, <3>3, <4>1 DEF Failed, UpToTries, GiveUp, NextChunk
      <4>3. /\ client'.pc = "chunk" /\ client'.seq = n2 /\ client'.tries = 0
            /\ client'.errors = e2 /\ client'.file = client.file
        BY <1>0, <4>2 DEF ClientState
      <4> QED
        BY <2>0, <4>1, <4>3
    <3> QED
      BY <3>2, <3>3
  <2> QED
    BY <1>5, <2>1, <2>2, <2>3
<1>7. Size' = L
  BY <1>1, <1>4, <1>6 DEF Size
<1>8. client'.seq # 0 /\ InStep' /\ Carrying' /\ AtEnd' /\ client'.file = client.file
  BY <1>1, <1>4, <1>6, <1>7 DEF InStep, Carrying, AtEnd
<1>9. Results'
  BY <1>1, <1>8, ResultsKept
<1> QED
  BY <1>1, <1>8, <1>9 DEF Motion, FilesOnly

\* The steps of the server. It opens a file, or closes it.
LEMMA OtherCarried ==
  ASSUME Types, Motion, Results, ProcessOther
  PROVE  Motion' /\ Results'
<1>0. /\ client.seq # 0 /\ toServer \in Seq(ToServer) /\ server.recv \in Nat
      /\ Sorts(toServer, toClient, server.recv, client.seq, client.tries, client.errors, trouble)
  BY CarriedSorts DEF Motion, ServerState
<1>1. PICK m : m = toServer[1]
  OBVIOUS
<1>2. /\ toServer # <<>> /\ toServer' = Tail(toServer) /\ Head(toServer) = m
      /\ UNCHANGED <<scenario, session, client, trouble>> /\ Working' = Working
      /\ 1 \in 1 .. Len(toServer)
  BY <1>0, <1>1, Shifted DEF ProcessOther, Working
<1>3. ~ Other(m) /\ ~ Chunk(m)
  BY <1>1, <1>2 DEF Motion, FilesOnly, ProcessOther, Chunk
<1>4. m.type # "start_shell_msg" /\ UNCHANGED toClient
  BY <1>2, <1>3 DEF ProcessOther, Other, Name, End, Chunk
<1>5. PICK o2, r2 : o2 = server'.receiving /\ r2 = server'.recv /\ r2 \in Nat
  BY <1>0, OtherServer DEF ServerState
<1>6. Opens(m, server.receiving, server.recv, o2, r2)
  BY <1>2, <1>3, <1>5, OtherServer DEF Opens, Other, Name, End, Chunk
<1>7. Motion'
  <2>1. Underway(Tail(toServer), toClient, o2, r2, client.pc, client.seq, client.tries,
                 client.errors, trouble, Size)
    <3>1. Underway(toServer, toClient, server.receiving, server.recv, client.pc, client.seq,
                   client.tries, client.errors, trouble, Size)
      BY DEF Motion, Carrying
    <3>2. Opens(toServer[1], server.receiving, server.recv, o2, r2)
      BY <1>1, <1>6
    <3> QED
      BY ONLY <1>0, <1>2, <1>5, <3>1, <3>2, UnderwayDone
  <2>2. Size' = Size
    BY <1>2 DEF Size
  <2>3. Carrying'
    BY <1>2, <1>4, <1>5, <2>1, <2>2 DEF Carrying
  <2>4. FilesOnly(toServer')
    BY <1>0, <1>2, OnlyOn DEF Motion
  <2>5. InStep'
    BY <1>2, <2>2 DEF Motion, InStep, Sending
  <2> QED
    BY <1>2, <2>3, <2>4, <2>5 DEF Motion
<1>8. Results'
  <2>1. CASE ~ Name(m)
    <3>1. UNCHANGED disk
      BY <1>2, <2>1 DEF ProcessOther, Name
    <3>2. AtEnd'
      BY <1>2 DEF Results, AtEnd
    <3> QED
      BY <1>1, <1>2, <2>1, <3>1, <3>2, ResultsKept
  <2>2. CASE Name(m)
    <3>1. Sendable(m) /\ HasName(toServer, m.data)
      BY <1>1, <1>2, <2>2 DEF Types, FrameTypes, HasName
    <3>2. PICK d \in FileNames : d = m.data
      BY <2>2, <3>1 DEF Sendable, Name
    <3>3. PICK i \in 1 .. client.file : /\ d = <<session, i>>
                                        /\ i < client.file => Working.files[i] = 0
      BY <3>1, <3>2 DEF Results, NamesRight, Nameable
    <3>4. disk' = [disk EXCEPT ![d] = <<>>] /\ DOMAIN disk = FileNames
      BY <1>2, <2>2, <3>2 DEF ProcessOther, Name, Types, Counts
    <3>5. \A f : HasName(toServer, f) <=> HasName(toServer', f) \/ f = d
      BY <1>0, <1>1, <1>2, <2>2, <3>2, NameOff
    <3>6. NamesRight'
      <4>1. \A f : Nameable(f) => Nameable(f)'
        BY <1>2 DEF Nameable
      <4> QED
        BY <3>5, <4>1 DEF Results, NamesRight
    <3>7. ASSUME NEW j \in DOMAIN Working.files, j < client.file
          PROVE  Whole(j)'
      <4>1. Whole(j)
        BY <3>7 DEF Results, FilesWhole
      <4>2. PICK f \in FileNames : f = <<session, j>>
        BY NameOf DEF Types
      <4>3. CASE j = i
        <5>1. Working.files[j] = 0 /\ f = d
          BY <3>3, <3>7, <4>2, <4>3
        <5>2. disk'[f] = <<>>
          BY <3>4, <5>1
        <5>3. Chunks(f, 0) = <<>>
          BY NoChunks, FileNumbers
        <5> QED
          BY <1>2, <4>2, <5>1, <5>2, <5>3 DEF Whole
      <4>4. CASE j # i
        <5>1. f # d
          BY <3>3, <4>2, <4>4
        <5>2. disk'[f] = disk[f]
          BY <3>4, <5>1
        <5>3. HasName(toServer, f) => HasName(toServer', f)
          BY <3>5, <5>1
        <5> QED
          BY <1>2, <4>1, <4>2, <5>2, <5>3 DEF Whole
      <4> QED
        BY <4>3, <4>4
    <3>8. FilesWhole' /\ AtEnd'
      BY <1>2, <3>7 DEF Results, FilesWhole, AtEnd
    <3> QED
      BY <3>6, <3>8 DEF Results
  <2> QED
    BY <2>1, <2>2
<1> QED
  BY <1>7, <1>8

\* It takes a chunk or refuses it.
LEMMA ChunkCarried ==
  ASSUME Types, Types', Undisturbed, FoundInv, Motion, Results, Working.mode = "put",
         ContinueReceivingFile
  PROVE  Motion' /\ Results'
<1>0. /\ client.seq # 0 /\ toServer \in Seq(ToServer) /\ server.recv \in Nat
      /\ Sorts(toServer, toClient, server.recv, client.seq, client.tries, client.errors, trouble)
      /\ toClient \in Seq(ToClient) /\ toClient' \in Seq(ToClient)
  BY CarriedSorts DEF Motion, ServerState, Types, FrameTypes
<1>1. PICK m : m = toServer[1]
  OBVIOUS
<1>2. /\ toServer # <<>> /\ toServer' = Tail(toServer) /\ Head(toServer) = m
      /\ UNCHANGED <<scenario, session, client, trouble>> /\ Working' = Working
      /\ Chunk(m)
  BY <1>0, <1>1, Shifted DEF ContinueReceivingFile, Working, Chunk
<1>3. /\ Size' = Size /\ FilesOnly(toServer') /\ InStep' /\ client'.seq # 0 /\ AtEnd'
      /\ ~ Name(m)
  <2>1. Size' = Size
    BY <1>2 DEF Size
  <2>2. FilesOnly(toServer')
    BY <1>0, <1>2, OnlyOn DEF Motion
  <2> QED
    BY <1>2, <2>1, <2>2 DEF Motion, Results, InStep, Sending, AtEnd, Chunk, Name
<1>4. PICK o, r, p2 : /\ o = server.receiving /\ r = server.recv /\ p2 = toClient'
  OBVIOUS
<1>5. Underway(toServer, toClient, o, r, client.pc, client.seq, client.tries,
               client.errors, trouble, Size)
  BY <1>4 DEF Motion, Carrying
<1>6. PICK sv : sv = [server EXCEPT !.known = TRUE]
  OBVIOUS
<1>7. sv.receiving = server.receiving /\ sv.recv = server.recv /\ sv.fd = server.fd
  BY <1>6, ServerGoesOn
<1>8. server'.receiving = o /\ server'.fd = server.fd
  BY <1>4, ChunkServer
<1>9. CASE Takes(m, o, r)
  <2>1. server.receiving /\ m.seq = server.recv
    BY <1>4, <1>9 DEF Takes
  <2>2. PICK r2 : r2 = r + 1
    OBVIOUS
  <2>3. server'.recv = r2
    BY <1>2, <1>4, <2>1, <2>2, ChunkServer
  <2>4. Confirms(toClient, p2, r)
    <3>1. PICK x : x = Msg("recv_ok_msg", r, Junk)
      OBVIOUS
    <3>2. x \in ToClient /\ IsFor(x, r)
      BY <1>0, <1>4, <3>1 DEF Msg, ToClient, MsgType, Reply, Junk, IsFor
    <3>3. p2 = Append(toClient, x)
      BY <1>2, <1>4, <1>6, <1>7, <2>1, <3>1 DEF ContinueReceivingFile, Wanted, NextOne
    <3> QED
      BY <3>2, <3>3 DEF Confirms
  <2>5. /\ client.pc \in {"chunk", "answer"}
        /\ \A k \in 1 .. Len(toServer) : ~ Name(toServer[k])
        /\ Underway(Tail(toServer), p2, o, r2, client.pc, client.seq, client.tries,
                    client.errors, trouble, Size)
    <3>1. client.pc \in {"file", "done", "chunk", "answer"}
      BY DEF Types, ClientTypes, Steps
    <3>2. Takes(toServer[1], o, r)
      BY <1>1, <1>9
    <3>3. Sorts(toServer, toClient, r, client.seq, client.tries, client.errors, trouble)
      BY <1>0, <1>4
    <3> QED
      BY ONLY <1>2, <1>5, <2>2, <2>4, <3>1, <3>2, <3>3, UnderwayTaken
  <2>6. Carrying'
    BY <1>2, <1>3, <1>4, <1>8, <2>3, <2>5 DEF Carrying
  <2>7. server.fd = <<session, client.file>>
    <3>1. Sending /\ Mild /\ ~ NameMissed
      BY <2>5 DEF Sending, Undisturbed, Mild
    <3>2. Named(toServer, server.fd, Len(toServer) + 1, <<session, client.file>>)
      BY <3>1 DEF FoundInv, Found, Finds
    <3>3. Len(toServer) \in Nat /\ Len(toServer) + 1 - 1 = Len(toServer)
      BY <1>0
    <3> QED
      BY <2>5, <3>2, <3>3 DEF Named
  <2>8. \A f \in FileNames : f # server.fd => disk'[f] = disk[f]
    <3>1. disk' = [disk EXCEPT ![server.fd] = Append(@, m.data)]
      BY <1>2, <1>6, <1>7, <2>1 DEF ContinueReceivingFile, Wanted, NextOne
    <3>2. DOMAIN disk = FileNames
      BY DEF Types, Counts
    <3> QED
      BY <3>1, <3>2
  <2>9. \A f : HasName(toServer, f) <=> HasName(toServer', f)
    <3> SUFFICES ASSUME NEW f
                 PROVE  HasName(toServer, f) <=> HasName(toServer', f)
      OBVIOUS
    <3>1. /\ toServer \in Seq(ToServer) /\ toServer # <<>> /\ toServer' = Tail(toServer)
          /\ ~ Name(toServer[1])
      BY <1>0, <1>1, <1>2, <1>3
    <3> QED
      BY ONLY <3>1, NameOff
  <2>10. NamesRight'
    <3>1. \A f : Nameable(f) => Nameable(f)'
      BY <1>2 DEF Nameable
    <3> QED
      BY <2>9, <3>1 DEF Results, NamesRight
  <2>11. ASSUME NEW j \in DOMAIN Working.files, j < client.file
         PROVE  Whole(j)'
    <3>1. Whole(j)
      BY <2>11 DEF Results, FilesWhole
    <3>2. PICK f \in FileNames : f = <<session, j>>
      BY NameOf DEF Types
    <3>3. client.file \in Nat
      BY DEF Types, ClientTypes, ClientState
    <3>4. j # client.file
      BY <2>11, <3>3
    <3>5. disk'[f] = disk[f]
      BY <2>7, <2>8, <3>2, <3>4
    <3> QED
      BY <1>2, <2>9, <3>1, <3>2, <3>5 DEF Whole
  <2>12. FilesWhole'
    BY <1>2, <2>11 DEF FilesWhole
  <2> QED
    BY <1>3, <2>6, <2>10, <2>12 DEF Motion, Results
<1>10. CASE ~ Takes(m, o, r)
  <2>1. ~ (server.receiving /\ m.seq = server.recv)
    BY <1>2, <1>4, <1>10 DEF Takes
  <2>2. server'.recv = r /\ UNCHANGED disk
    BY <1>2, <1>4, <1>6, <1>7, <2>1, ChunkServer DEF ContinueReceivingFile, Wanted, NextOne
  <2>3. Refuses(m, o, r, toClient, p2)
    <3>1. CASE ~ o
      BY <1>2, <1>4, <1>6, <1>7, <3>1 DEF ContinueReceivingFile, Refuses
    <3>2. CASE o
      <4>1. PICK x : x = Msg("recv_err_msg", 0, Junk)
        OBVIOUS
      <4>2. x \in ToClient /\ x.type = "recv_err_msg"
        BY <4>1 DEF Msg, ToClient, MsgType, Reply, Junk
      <4>3. p2 = Append(toClient, x)
        BY <1>2, <1>4, <1>6, <1>7, <2>1, <3>2, <4>1 DEF ContinueReceivingFile, Wanted, NextOne
      <4> QED
        BY <1>2, <1>4, <2>1, <3>2, <4>2, <4>3 DEF Refuses
    <3> QED
      BY <3>1, <3>2
  <2>4. Underway(Tail(toServer), p2, o, r, client.pc, client.seq, client.tries,
                 client.errors, trouble, Size)
    <3>1. Refuses(toServer[1], o, r, toClient, p2)
      BY <1>1, <2>3
    <3>2. Sorts(toServer, toClient, r, client.seq, client.tries, client.errors, trouble)
      BY <1>0, <1>4
    <3>3. p2 \in Seq(ToClient)
      BY <1>0, <1>4
    <3> QED
      BY ONLY <1>2, <1>5, <3>1, <3>2, <3>3, UnderwayRefused
  <2>5. Carrying'
    BY <1>2, <1>3, <1>4, <1>8, <2>2, <2>4 DEF Carrying
  <2>6. Results'
    BY <1>1, <1>2, <1>3, <2>2, ResultsKept
  <2> QED
    BY <1>3, <2>5, <2>6 DEF Motion
<1> QED
  BY <1>9, <1>10

\* Its shell writes, and it sends that, or a frame is lost: of those to the server, one
\* that does not name a file.
ShellSpeaks == /\ UNCHANGED toServer /\ trouble' \in {trouble, trouble + 1}
               /\ UNCHANGED toClient \/ Speaks(toClient, toClient')
FrameDropped == /\ toServer # <<>> /\ ~ Name(toServer[1]) /\ toServer' = Tail(toServer)
                /\ UNCHANGED toClient /\ trouble' = trouble + 1
FrameUntold == /\ toClient # <<>> /\ toClient' = Tail(toClient)
               /\ UNCHANGED toServer /\ trouble' = trouble + 1
LEMMA ShellQueues ==
  ASSUME Types, FilesOnly(toServer), ~ NameMissed',
         \/ ForwardOutput \/ ReadAcknowledgement \/ NoAcknowledgement
         \/ NoAcknowledgementYet \/ ShellWrites \/ Lose
  PROVE  /\ UNCHANGED <<scenario, session, client, disk>> /\ SameFile
         /\ ShellSpeaks \/ FrameDropped \/ FrameUntold
<1>1. UNCHANGED <<scenario, session, client, disk>> /\ SameFile
  BY OtherEffect DEF Drops, Skips, Keeps
<1>2. toServer \in Seq(ToServer) /\ server \in ServerState
  BY DEF Types, FrameTypes, ServerTypes
<1>3. ASSUME server' \in ServerState, SendsOutput
      PROVE  Speaks(toClient, toClient')
  <2>1. PICK m : m = Msg("shell_response_msg", server'.seq, Head(server.out))
    OBVIOUS
  <2>2. server'.seq \in Int /\ Head(server.out) \in Nat
    BY <1>2, <1>3 DEF ServerState, SendsOutput
  <2>3. m \in ToClient /\ m.type \notin Reply
    BY <2>1, <2>2 DEF Msg, ToClient, MsgType, Reply
  <2> QED
    BY <1>3, <2>1, <2>3 DEF SendsOutput, Speaks
<1>4. ASSUME ForwardOutput \/ NoAcknowledgement \/ NoAcknowledgementYet
      PROVE  ShellSpeaks
  <2>1. UNCHANGED toServer /\ trouble' \in {trouble, trouble + 1}
    BY <1>4 DEF ForwardOutput, NoAcknowledgement, NoAcknowledgementYet
  <2>2. server' \in ServerState /\ (SendsOutput \/ UNCHANGED toClient)
    BY <1>4, OutputSteps DEF EndsOutput
  <2> QED
    BY <1>3, <2>1, <2>2 DEF ShellSpeaks
<1>5. ASSUME toServer # <<>>, toServer' = Tail(toServer), UNCHANGED toClient,
             missed' = missed \cup {Head(toServer).type}, trouble' = trouble + 1
      PROVE  FrameDropped
  <2>1. Head(toServer) = toServer[1]
    BY <1>2, <1>5, Shifted
  <2>2. ~ Name(toServer[1])
    BY <1>5, <2>1 DEF NameMissed, Name
  <2> QED
    BY <1>5, <2>2 DEF FrameDropped
<1>6. ASSUME ReadAcknowledgement
      PROVE  FrameDropped
  <2>1. Head(toServer) = toServer[1] /\ 1 \in 1 .. Len(toServer) /\ toServer # <<>>
        /\ toServer' = Tail(toServer)
    BY <1>2, <1>6, Shifted DEF ReadAcknowledgement
  <2>2. Head(toServer).type \notin Reply
    BY <2>1 DEF FilesOnly, Other, Name, End, Chunk, Reply
  <2> QED
    BY <1>5, <1>6, <2>1, <2>2 DEF ReadAcknowledgement
<1>7. ASSUME ShellWrites
      PROVE  ShellSpeaks
  BY <1>7 DEF ShellWrites, ShellSpeaks
<1>8. ASSUME Lose
      PROVE  FrameDropped \/ FrameUntold
  BY <1>5, <1>8 DEF Lose, FrameUntold
<1> QED
  BY <1>1, <1>4, <1>6, <1>7, <1>8

LEMMA ShellCarried ==
  ASSUME Types, Motion, Results, ~ NameMissed',
         \/ ForwardOutput \/ ReadAcknowledgement \/ NoAcknowledgement
         \/ NoAcknowledgementYet \/ ShellWrites \/ Lose
  PROVE  Motion' /\ Results'
<1>0. /\ client.seq # 0 /\ toServer \in Seq(ToServer) /\ FilesOnly(toServer)
      /\ Sorts(toServer, toClient, server.recv, client.seq, client.tries, client.errors, trouble)
  BY CarriedSorts DEF Motion
<1>1. /\ UNCHANGED <<scenario, session, client, disk>> /\ SameFile
      /\ ShellSpeaks \/ FrameDropped \/ FrameUntold
  BY <1>0, ShellQueues
<1>2. Underway(toServer, toClient, server.receiving, server.recv, client.pc, client.seq,
               client.tries, client.errors, trouble, Size)
  BY DEF Motion, Carrying
<1>3. Underway(toServer', toClient', server.receiving, server.recv, client.pc, client.seq,
               client.tries, client.errors, trouble', Size)
  <2>1. CASE ShellSpeaks
    <3>1. Underway(toServer, toClient', server.receiving, server.recv, client.pc, client.seq,
                   client.tries, client.errors, trouble, Size)
      <4>1. CASE UNCHANGED toClient
        BY <1>2, <4>1
      <4>2. PICK p2 : p2 = toClient'
        OBVIOUS
      <4>3. CASE Speaks(toClient, p2)
        BY <1>0, <1>2, <4>2, <4>3, UnderwayOutput
      <4> QED
        BY <2>1, <4>1, <4>2, <4>3 DEF ShellSpeaks
    <3>2. Sorts(toServer, toClient', server.recv, client.seq, client.tries, client.errors,
                trouble)
      <4>1. toClient' \in Seq(ToClient)
        <5>1. toClient \in Seq(ToClient)
          BY DEF Types, FrameTypes
        <5>2. ASSUME NEW m \in ToClient
              PROVE  Append(toClient, m) \in Seq(ToClient)
          BY <5>1, Appended
        <5> QED
          BY <2>1, <5>1, <5>2 DEF ShellSpeaks, Speaks
      <4> QED
        BY <1>0, <4>1 DEF Sorts
    <3>3. Underway(toServer, toClient', server.receiving, server.recv, client.pc, client.seq,
                   client.tries, client.errors, trouble + 1, Size)
      BY <3>1, <3>2, UnderwayMore
    <3> QED
      BY <2>1, <3>1, <3>3 DEF ShellSpeaks
  <2>2. CASE FrameDropped
    BY <1>0, <1>2, <2>2, UnderwayDropped DEF FrameDropped
  <2>3. CASE FrameUntold
    BY <1>0, <1>2, <2>3, UnderwayUntold DEF FrameUntold
  <2> QED
    BY <1>1, <2>1, <2>2, <2>3
<1>4. Size' = Size /\ AtEnd' /\ InStep'
  BY <1>1 DEF Size, Results, AtEnd, Motion, InStep, Sending, Working
<1>5. Carrying'
  BY <1>1, <1>3, <1>4 DEF Carrying, SameFile
<1>6. \/ UNCHANGED toServer
      \/ toServer # <<>> /\ toServer' = Tail(toServer) /\ ~ Name(toServer[1])
  BY <1>1 DEF ShellSpeaks, FrameDropped, FrameUntold
<1>7. FilesOnly(toServer')
  BY <1>0, <1>6, OnlyOn
<1>8. Results'
  BY <1>1, <1>4, <1>6, ResultsKept
<1> QED
  BY <1>0, <1>1, <1>4, <1>5, <1>7, <1>8 DEF Motion

\* A new client, with nothing under way.
LEMMA NothingLoose ==
  ASSUME NEW o, NEW r, NEW T \in Nat
  PROVE  Loose(<<>>, <<>>, o, r, T)
<1>1. Len(<<>>) = 0 /\ 1 .. 0 = {} /\ 1 \in Int /\ 0 \in Int /\ 0 < 1
  OBVIOUS
<1>2. Count(<<>>, ChunkType, 1, 0) = 0 /\ Count(<<>>, Reply, 1, 0) = 0
  BY <1>1, CountNat
<1> QED
  BY <1>1, <1>2 DEF Loose, Total, Spent, Refused

Anew == /\ Counts /\ Working.mode = "put" /\ client = Fresh(Working.mode)
        /\ toServer = <<>> /\ toClient = <<>>
LEMMA NewClient == Anew => Motion /\ Results
<1> SUFFICES ASSUME Anew PROVE Motion /\ Results
  OBVIOUS
<1>1. /\ client.pc = "file" /\ client.seq = 1 /\ client.file = 1 /\ trouble \in Nat
      /\ toServer = <<>> /\ toClient = <<>>
  BY DEF Fresh, FirstStep, Anew, Counts
<1>2. Carrying
  BY <1>1, NothingLoose DEF Carrying, Underway
<1>3. FilesOnly(toServer) /\ \A d : ~ HasName(toServer, d)
  <2>1. Len(toServer) = 0 /\ 1 .. 0 = {}
    BY <1>1
  <2> QED
    BY <2>1 DEF FilesOnly, HasName
<1>4. InStep /\ AtEnd /\ NamesRight
  BY <1>1, <1>3 DEF InStep, Sending, AtEnd, NamesRight
<1>5. FilesWhole
  <2>1. Working.files \in Seq(Nat)
    BY Scene DEF Anew
  <2>2. ASSUME NEW i \in DOMAIN Working.files PROVE ~ (i < 1)
    BY <2>1
  <2> QED
    BY <1>1, <2>2 DEF FilesWhole
<1> QED
  BY <1>1, <1>2, <1>3, <1>4, <1>5 DEF Motion, Results

LEMMA NewClientNext == Anew' => Motion' /\ Results'
BY NewClient, PTL

LEMMA UndisturbedBefore ==
  ASSUME Types, Types', Next, Undisturbed'
  PROVE  /\ Undisturbed /\ Mild /\ ~ NameMissed' /\ trouble' < Tries
         /\ trouble \in Nat /\ trouble' \in Nat
         /\ ~ DiskFull
<1>0. Tries \in Nat
  BY ConstAssumption DEF ConstAssumption
<1>1. /\ trouble \in Nat /\ trouble' \in Nat /\ trouble <= trouble' /\ missed \subseteq missed'
      /\ UNCHANGED scenario
  BY DEF Next, ClientStep, ServerStep, Timeout, PutFile, SendChunk, StartShell, ReadAnswer,
     NoAnswer, ReadOutput, ProcessOther, ContinueReceivingFile, ForwardOutput,
     ReadAcknowledgement, NoAcknowledgement, NoAnswerYet, NoAcknowledgementYet, Type,
     DiskFull, ShellWrites, Lose, NextClient, Types, Counts
<1>2. NeverFull' /\ ~ NameMissed' /\ trouble' < Tries
  BY DEF Undisturbed
<1>3. NeverFull
  BY <1>2, MildBefore
<1>4. ~ NameMissed /\ trouble < Tries
  BY <1>0, <1>1, <1>2 DEF NameMissed
<1>5. ~ DiskFull
  <2>1. SUFFICES ASSUME DiskFull PROVE FALSE
    OBVIOUS
  <2>2. /\ "full" \in DOMAIN left /\ left["full"] \in Nat
        /\ left["full"] <= scenario["full"] /\ scenario["full"] = scenario.full
        /\ scenario["full"] \in Nat
    BY Scene DEF Types, Counts
  <2>3. left'["full"] = left["full"] - 1
    BY <2>1, <2>2, Spending DEF DiskFull, Types
  <2> QED
    BY <1>1, <1>2, <2>2, <2>3 DEF NeverFull
<1> QED
  BY <1>1, <1>2, <1>3, <1>4, <1>5 DEF Undisturbed, Mild

LEMMA CarriedNext ==
  ASSUME Tries <= MaxErrors + 1, Types, Types', FileInv, CarriedInv, [Next]_vars
  PROVE  CarriedInv'
<1>1. CASE UNCHANGED vars
  <2>1. /\ UNCHANGED <<scenario, session, client, server, toServer, toClient, disk, left, missed,
                       trouble>>
        /\ Working' = Working
    BY <1>1 DEF vars, Working
  <2>2. Ongoing' <=> Ongoing
    BY <2>1 DEF Ongoing, Undisturbed, NeverFull, NameMissed
  <2>3. Motion' <=> Motion
    BY <2>1 DEF Motion, FilesOnly, InStep, Sending, Carrying, Size
  <2>4. Results' <=> Results
    BY <2>1 DEF Results, NamesRight, Nameable, FilesWhole, Whole, AtEnd
  <2> QED
    BY <2>2, <2>3, <2>4 DEF CarriedInv
<1>2. CASE Next
  <2>1. SUFFICES ASSUME Ongoing' PROVE Motion' /\ Results'
    BY DEF CarriedInv
  <2>2. /\ Undisturbed /\ ~ NameMissed' /\ trouble' < Tries /\ trouble' \in Nat /\ ~ DiskFull
        /\ Working'.mode = "put"
    BY <1>2, <2>1, UndisturbedBefore DEF Ongoing
  <2>3. CASE NextClient
    <3>1. client' = Fresh(Working'.mode) /\ toServer' = <<>> /\ toClient' = <<>>
      BY <2>3 DEF NextClient, Working
    <3>2. Anew'
      BY <2>2, <3>1 DEF Anew, Types
    <3> QED
      BY <3>2, NewClientNext
  <2>4. CASE ~ NextClient
    <3>1. Working' = Working
      BY <1>2, <2>4 DEF Next, ClientStep, ServerStep, Timeout, PutFile, SendChunk, StartShell,
        ReadAnswer,
         NoAnswer, ReadOutput, ProcessOther, ContinueReceivingFile, ForwardOutput,
         ReadAcknowledgement, NoAcknowledgement, NoAnswerYet, NoAcknowledgementYet, Type,
         DiskFull, ShellWrites, Lose, Working
    <3>2. Working.mode = "put" /\ Motion /\ Results /\ FoundInv /\ WrittenInv
      BY <2>2, <3>1 DEF Ongoing, CarriedInv, FileInv
    <3>3. ~ (StartShell \/ ReadOutput \/ Type)
      BY <3>2, ShellEffect
    <3>4. CASE PutFile
      BY <3>2, <3>4, PutFileCarried
    <3>5. CASE SendChunk
      BY <2>2, <3>2, <3>5, SendChunkCarried
    <3>6. CASE ReadAnswer \/ NoAnswer \/ NoAnswerYet
      BY <2>2, <3>2, <3>6, AnswerCarried
    <3>7. CASE ProcessOther
      BY <3>2, <3>7, OtherCarried
    <3>8. CASE ContinueReceivingFile
      BY <2>2, <3>2, <3>8, ChunkCarried
    <3>9. CASE \/ ForwardOutput \/ ReadAcknowledgement \/ NoAcknowledgement
               \/ NoAcknowledgementYet \/ ShellWrites \/ Lose
      BY <2>2, <3>2, <3>9, ShellCarried
    <3> QED
      BY <1>2, <2>2, <2>4, <3>3, <3>4, <3>5, <3>6, <3>7, <3>8, <3>9
         DEF Next, ClientStep, ServerStep, Timeout
  <2> QED
    BY <2>3, <2>4
<1> QED
  BY <1>1, <1>2

LEMMA InitCarried == Init => CarriedInv
<1> SUFFICES ASSUME Init, Ongoing PROVE Motion /\ Results
  BY DEF CarriedInv
<1>1. Anew
  BY InitTypes DEF Init, Working, Types, Ongoing, Anew
<1> QED
  BY <1>1, NewClient

\* Where a file is given up after no fewer chunks than the client makes attempts at
\* one (11 and 3 in the code), for any clients, files and losses: transfer_file and
\* continue_receiving_file leave every file of a client that has ended complete on
\* the box, if less went wrong than the client makes attempts at a chunk, the server
\* got the names, and its disk had room.
THEOREM FilesArrive == ASSUME Tries <= MaxErrors + 1 PROVE Spec => []Complete
<1>1. Types /\ CarriedInv => Complete
  <2> SUFFICES ASSUME Types, CarriedInv, Working.mode = "put", client.pc = "done",
                      toServer = <<>>, Undisturbed, NEW i \in DOMAIN Working.files
               PROVE  disk[<<session, i>>] = Chunks(<<session, i>>, Working.files[i])
    BY DEF Complete, Undisturbed, NameMissed
  <2>1. Results
    BY DEF CarriedInv, Ongoing
  <2>2. Working.files \in Seq(Nat) /\ client.file \in Nat
    BY Scene DEF Types, ClientTypes, ClientState
  <2>3. client.file > Len(Working.files) /\ i \in 1 .. Len(Working.files)
    BY <2>1, <2>2 DEF Results, AtEnd
  <2>4. i < client.file
    BY <2>2, <2>3
  <2>5. ~ HasName(toServer, <<session, i>>)
    <3>1. Len(toServer) = 0 /\ 1 .. 0 = {}
      OBVIOUS
    <3> QED
      BY <3>1 DEF HasName
  <2> QED
    BY <2>1, <2>4, <2>5 DEF Results, FilesWhole, Whole
<1>2. Init => Types /\ FileInv /\ CarriedInv
  BY InitTypes, InitFiles, InitCarried
<1>3. Types /\ FileInv /\ CarriedInv /\ [Next]_vars => Types' /\ FileInv' /\ CarriedInv'
  BY NextTypes, NextFiles, CarriedNext
<1> QED
  BY <1>1, <1>2, <1>3, PTL DEF Spec
=============================================================================
