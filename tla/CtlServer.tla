------------------------------ MODULE CtlServer ------------------------------
(***************************************************************************)
(* The control socket (ctl_server.rs), its clients (bin/auris.rs), the     *)
(* supervisor that carries out the commands (session.rs on_command) and    *)
(* the two kinds of readers of the watch channel: the debounced writer of  *)
(* state.json (writer.rs run) and the subscribers.                         *)
(*                                                                         *)
(* A client connects, asks one thing and leaves.  Of a request only the    *)
(* course matters: `status` is answered at once and is left out.  Of the   *)
(* snapshot only which version a reader has matters.                       *)
(***************************************************************************)
EXTENDS Naturals, Sequences, FiniteSets

CONSTANTS
    Clients,
    MAX_CLIENTS, CMD_QUEUE,
    COMMAND_DEADLINE

ASSUME CtlAssumption ==
    /\ {MAX_CLIENTS, CMD_QUEUE, COMMAND_DEADLINE} \subseteq Nat
    /\ {"writer", "none"} \cap Clients = {}

VARIABLES
    there,          \* the clients that have not hung up
    handler,        \* what the task serving a client does
    age,            \* seconds since the handler read the request
    answer,         \* what the handler answered
    ran,            \* the operation was carried out
    queue,          \* cmd_rx
    busy,           \* the command on_command runs: [client, stage], or Idle
    watch           \* the readers of the watch channel

cvars == <<there, handler, age, answer, ran, queue, busy, watch>>

Readers == {"writer"} \cup Clients
Idle == [client |-> "none", stage |-> "idle"]
(* A version is only compared with the current one.  at: off, waits (for   *)
(* changed), sleeps (DEBOUNCE), writes; the version marked as seen, held   *)
(* to be written, and last written is the current one; that write failed.  *)
Off == [at |-> "off", seen |-> FALSE, held |-> FALSE, shown |-> FALSE, lost |-> FALSE]
UpToDate == [at |-> "waits", seen |-> TRUE, held |-> FALSE, shown |-> TRUE, lost |-> FALSE]

CtlInit ==
    /\ there = {} /\ handler = [c \in Clients |-> "none"] /\ age = [c \in Clients |-> 0]
    /\ answer = [c \in Clients |-> "none"] /\ ran = [c \in Clients |-> FALSE]
    /\ queue = <<>> /\ busy = Idle
    /\ watch = [r \in Readers |-> IF r = "writer" THEN UpToDate ELSE Off]

Serving == {c \in Clients : handler[c] # "none"}
Waits(c) == handler[c] \in {"sending", "waiting"}       \* dispatch still holds its end
Answered(c, a) ==
    /\ answer' = [answer EXCEPT ![c] = a]
    /\ handler' = [handler EXCEPT ![c] = "answering"]
Stays == UNCHANGED watch
NotRun == UNCHANGED <<queue, busy, ran>>

----------------------------------------------------------------------------
(* The clients and serve. *)
Queues(c) == \E i \in DOMAIN queue : queue[i] = c
Forgotten(c) == ~Queues(c) /\ busy.client # c
Connect(c) ==                   \* a connection over MAX_CLIENTS is dropped
    /\ c \notin there /\ handler[c] = "none" /\ Forgotten(c)
    /\ Cardinality(Serving) < MAX_CLIENTS
    /\ there' = there \cup {c} /\ handler' = [handler EXCEPT ![c] = "reading"]
    /\ answer' = [answer EXCEPT ![c] = "none"] /\ ran' = [ran EXCEPT ![c] = FALSE]
    /\ age' = [age EXCEPT ![c] = 0]
    /\ UNCHANGED <<queue, busy>> /\ Stays

HangUp(c) ==                    \* only a read or a write notices
    /\ c \in there /\ there' = there \ {c}
    /\ handler' = [handler EXCEPT ![c] = IF @ = "reading" THEN "none" ELSE @]
    /\ UNCHANGED <<age, answer>> /\ NotRun /\ Stays

Asks(c) ==
    /\ handler[c] = "reading" /\ answer[c] = "none"
    /\ handler' = [handler EXCEPT ![c] = "sending"]
    /\ UNCHANGED <<there, age, answer>> /\ NotRun /\ Stays

(* The answer is written; the client is gone, or goes on to its next line. *)
Answers(c) ==
    /\ handler[c] = "answering"
    /\ handler' = [handler EXCEPT ![c] = IF c \in there THEN "reading" ELSE "none"]
    /\ UNCHANGED <<there, age, answer>> /\ NotRun /\ Stays

(* dispatch_until: room in the queue, or the deadline. *)
Queued(c) ==
    /\ handler[c] = "sending" /\ Len(queue) < CMD_QUEUE
    /\ queue' = Append(queue, c) /\ handler' = [handler EXCEPT ![c] = "waiting"]
    /\ UNCHANGED <<there, age, answer, ran, busy>> /\ Stays
Deadline_Queues(c) ==
    /\ Waits(c) /\ age[c] >= COMMAND_DEADLINE
    /\ Answered(c, IF handler[c] = "sending" THEN "expired" ELSE "timeout")
    /\ queue' = IF handler[c] = "sending" THEN Append(queue, c) ELSE queue
    /\ UNCHANGED <<there, age, busy, ran>> /\ Stays
Deadline(c) ==
    /\ Waits(c) /\ age[c] >= COMMAND_DEADLINE
    /\ Answered(c, IF handler[c] = "sending" THEN "expired" ELSE "timeout")
    /\ UNCHANGED <<there, age>> /\ NotRun /\ Stays

SecondPasses ==
    /\ \E c \in Clients : Waits(c) /\ age[c] < COMMAND_DEADLINE
    /\ age' = [c \in Clients |->
                IF Waits(c) /\ age[c] < COMMAND_DEADLINE THEN age[c] + 1 ELSE age[c]]
    /\ UNCHANGED <<there, handler, answer>> /\ NotRun /\ Stays

----------------------------------------------------------------------------
(* on_command.  command_is_current: its end of the reply is open and the   *)
(* deadline ahead; the context of the command may have changed as well.    *)
command_is_current(c) == handler[c] = "waiting" /\ age[c] < COMMAND_DEADLINE

Takes ==
    /\ busy = Idle /\ queue # <<>> /\ queue' = Tail(queue)
    /\ LET c == Head(queue) IN
       \/ /\ command_is_current(c)
          /\ busy' = [client |-> c, stage |-> "checks"] /\ UNCHANGED <<handler, answer>>
       \/ IF handler[c] = "waiting"                     \* not current, and told so
          THEN Answered(c, "error") /\ UNCHANGED busy
          ELSE ~command_is_current(c) /\ UNCHANGED <<handler, answer, busy>>
    /\ UNCHANGED <<there, age, ran>> /\ Stays

(* After an await the authority is checked again, then the one effect.     *)
Acts_Unchecked ==
    /\ busy.stage = "checks"
    /\ ran' = [ran EXCEPT ![busy.client] = TRUE] /\ busy' = [busy EXCEPT !.stage = "acts"]
    /\ UNCHANGED <<there, handler, age, answer, queue>> /\ Stays
Acts ==
    /\ busy.stage = "checks" /\ command_is_current(busy.client)
    /\ ran' = [ran EXCEPT ![busy.client] = TRUE] /\ busy' = [busy EXCEPT !.stage = "acts"]
    /\ UNCHANGED <<there, handler, age, answer, queue>> /\ Stays

(* The reply; a command refused by its own checks acts on nothing.         *)
Replies ==
    /\ busy # Idle /\ busy' = Idle
    /\ IF Waits(busy.client)
       THEN Answered(busy.client, IF busy.stage = "acts" THEN "ok" ELSE "error")
       ELSE UNCHANGED <<handler, answer>>
    /\ UNCHANGED <<there, age, queue, ran>> /\ Stays
Fails ==                        \* the operation was begun, and failed
    /\ busy.stage = "acts" /\ busy' = Idle
    /\ IF Waits(busy.client) THEN Answered(busy.client, "error")
       ELSE UNCHANGED <<handler, answer>>
    /\ UNCHANGED <<there, age, queue, ran>> /\ Stays

----------------------------------------------------------------------------
(* The watch channel. *)
Same == UNCHANGED <<there, age, answer, queue, busy, ran>>
Becomes(r, w) == watch' = [watch EXCEPT ![r] = w]

(* Store::apply with a change: nobody has, or shows, the current version.  *)
Changes ==
    /\ watch' = [r \in Readers |-> IF watch[r] = Off THEN Off
                   ELSE [watch[r] EXCEPT !.seen = FALSE, !.held = FALSE, !.shown = FALSE]]
    /\ UNCHANGED handler /\ Same

(* changed() returns and marks the version as seen; the burst is awaited.  *)
WriterWakes ==
    LET w == watch["writer"] IN
    /\ w.at = "waits" /\ ~w.seen
    /\ Becomes("writer", [w EXCEPT !.at = "sleeps", !.seen = TRUE, !.held = TRUE])
    /\ UNCHANGED handler /\ Same

(* borrow_and_update, and the file is replaced or the write fails.         *)
WriterWrites_Held ==
    LET w == watch["writer"] IN
    /\ w.at = "sleeps"
    /\ Becomes("writer", [w EXCEPT !.at = "waits", !.seen = TRUE, !.held = FALSE,
                                   !.shown = w.held])
    /\ UNCHANGED handler /\ Same
WriterWrites ==
    LET w == watch["writer"] IN
    /\ w.at = "sleeps"
    /\ \E ok \in BOOLEAN :
        Becomes("writer", [w EXCEPT !.at = "waits", !.seen = TRUE, !.held = FALSE,
                                    !.lost = ~ok, !.shown = ok \/ @])
    /\ UNCHANGED handler /\ Same

Subscribes(c) ==
    /\ handler[c] = "reading" /\ answer[c] = "none"
    /\ handler' = [handler EXCEPT ![c] = "streaming"]
    /\ Becomes(c, [Off EXCEPT !.at = "writes", !.seen = TRUE, !.held = TRUE])
    /\ Same
(* A line is out.  A client that is gone is noticed here, and only here.   *)
SubscriberWrote(c) ==
    LET w == watch[c] IN
    /\ w.at = "writes"
    /\ IF c \in there
       THEN /\ Becomes(c, [w EXCEPT !.at = "waits", !.shown = w.held, !.held = FALSE])
            /\ UNCHANGED handler
       ELSE Becomes(c, Off) /\ handler' = [handler EXCEPT ![c] = "none"]
    /\ Same
SubscriberWakes(c) ==
    LET w == watch[c] IN
    /\ w.at = "waits" /\ ~w.seen
    /\ Becomes(c, [w EXCEPT !.at = "writes", !.seen = TRUE, !.held = TRUE])
    /\ UNCHANGED handler /\ Same

CtlNext ==
    \/ \E c \in Clients :
        \/ Connect(c) \/ HangUp(c) \/ Asks(c) \/ Answers(c) \/ Queued(c) \/ Deadline(c)
        \/ Subscribes(c) \/ SubscriberWrote(c) \/ SubscriberWakes(c)
    \/ SecondPasses \/ Takes \/ Acts \/ Replies \/ Fails
    \/ Changes \/ WriterWakes \/ WriterWrites

CtlSpec == CtlInit /\ [][CtlNext]_cvars

----------------------------------------------------------------------------
CtlTypeOK ==
    /\ there \subseteq Clients
    /\ handler \in [Clients -> {"none", "reading", "sending", "waiting", "answering", "streaming"}]
    /\ age \in [Clients -> 0..COMMAND_DEADLINE]
    /\ answer \in [Clients -> {"none", "ok", "error", "expired", "timeout"}]
    /\ ran \in [Clients -> BOOLEAN]
    /\ queue \in Seq(Clients) /\ Len(queue) <= CMD_QUEUE

(* An answer is the truth: `ok` means carried out, "expired before         *)
(* queueing" that it never will be.  And nothing is begun for a client     *)
(* that was already answered: a command that sat in the queue behind a     *)
(* dial past its deadline is inert (ctl_server.rs 36-39, 278-303;          *)
(* session.rs 853-870).                                                    *)
AnswerIsTrue ==
    \A c \in Clients :
        /\ answer[c] = "ok" => ran[c]
        /\ answer[c] = "expired" => ~ran[c] /\ ~Queues(c)
InertOnceAnswered ==
    [][\A c \in Clients : ran'[c] /\ ~ran[c] => answer[c] = "none"]_cvars

(* No change is lost on a reader: one that is waiting for a change, with   *)
(* none it has not seen, last wrote the current snapshot.  Only a write of *)
(* state.json that failed stays behind until the next change (writer.rs    *)
(* 69-76; ctl_server.rs 246-270).                                          *)
WatchersCatchUp ==
    \A r \in Readers :
        LET w == watch[r] IN
        (w.at = "waits" /\ w.seen /\ ~w.lost) => w.shown

(* The slot of a subscriber is free once it has hung up, without waiting   *)
(* for a change of the snapshot.                                           *)
SlotsAreForClients == \A c \in Clients : handler[c] = "streaming" => c \in there
=============================================================================
