-------------------------------- MODULE Chats --------------------------------
(***************************************************************************)
(* The translation helper's chats: a message is answered by a model that   *)
(* is given the chat's history, at once (send_message) or in chunks        *)
(* (stream_message), and the first message gives the chat its title.       *)
(*                                                                         *)
(* A row's created_at is the time its transaction began, not the time it   *)
(* was committed, and messages are listed by it.  A transaction begins     *)
(* with the first read after a commit.  Only the owner of a chat gets at   *)
(* it, so all requests here are of one owner; contents and agents are left *)
(* out, and a message is named by the request that wrote it.               *)
(***************************************************************************)
EXTENDS Sql, Naturals, FiniteSets

CONSTANTS
    ChatIds,      \* ids of th_chats rows
    Senders,      \* requests in flight at a time
    MaxTalk       \* bound on messages sent and titles chosen

ASSUME ChatsAssumption == MaxTalk \in Nat /\ NULL \notin ChatIds

VARIABLES
    chat,        \* th_chats: the title
    message,     \* th_chat_messages
    sender,      \* requests in flight
    talk,        \* history: messages sent and titles chosen, the number of the last one
    clock,       \* transactions begun, the time of the last one
    deleted,     \* chats deleted
    heard,       \* history: what the model was given with each question
    crossed,     \* history: questions asked while another request on the chat was under way
    chosen,      \* history: the title the user last gave a chat
    retitled     \* history: chats given a title while a request on them was under way

chatVars == <<chat, message, sender, talk, clock, deleted, heard, crossed, chosen, retitled>>

Untitled == [by |-> "nobody", n |-> 0]
Titles == [by : {"nobody", "user", "model"}, n : 0 .. MaxTalk]
Messages == [chat : ChatIds, n : 1 .. MaxTalk, role : {"user", "assistant"}, at : Nat]
SenderRows == [pc : {"idle", "sending", "waiting", "asking", "streaming"}, n : 0 .. MaxTalk,
               chat : ChatIds \cup {NULL}, title : Titles, first : BOOLEAN, at : Nat]

\* SQL NULL is no row.
ASSUME ChatRowAssumption == NULL \notin Titles

IdleSender == [pc |-> "idle", n |-> 0, chat |-> NULL, title |-> Untitled, first |-> FALSE, at |-> 0]

ChatsTypeOK ==
    /\ chat \in [ChatIds -> Titles \cup {NULL}]
    /\ message \subseteq Messages
    /\ \A m \in message : chat[m.chat] # NULL \* the foreign key
    /\ sender \in [Senders -> SenderRows]
    /\ \A s \in Senders : sender[s].n <= talk /\ sender[s].at <= clock
    /\ talk \in 0 .. MaxTalk
    /\ clock \in Nat
    /\ deleted \subseteq {h \in ChatIds : chat[h] = NULL}
    /\ heard \in [1 .. MaxTalk -> SUBSET Messages]
    /\ crossed \subseteq 1 .. talk
    /\ chosen \in [ChatIds -> 0 .. talk]
    /\ retitled \subseteq ChatIds

ChatsInit ==
    /\ chat = [h \in ChatIds |-> NULL]
    /\ message = {}
    /\ sender = [s \in Senders |-> IdleSender]
    /\ talk = 0 /\ clock = 0
    /\ deleted = {}
    /\ heard = [n \in 1 .. MaxTalk |-> {}]
    /\ crossed = {}
    /\ chosen = [h \in ChatIds |-> 0]
    /\ retitled = {}

-----------------------------------------------------------------------------
Under(h) == {s \in Senders : sender[s].chat = h}
Hang(s) == sender' = [sender EXCEPT ![s] = IdleSender]

\* The title the user gives a chat.
Choose(h) ==
    /\ talk < MaxTalk
    /\ talk' = talk + 1
    /\ chat' = [chat EXCEPT ![h] = [by |-> "user", n |-> talk + 1]]
    /\ chosen' = [chosen EXCEPT ![h] = talk + 1]
    /\ retitled' = IF Under(h) = {} THEN retitled ELSE retitled \cup {h}

\* create_chat, with a title or without.
CreateChat(h) ==
    /\ chat[h] = NULL /\ h \notin deleted
    /\ \/ Choose(h)
       \/ chat' = [chat EXCEPT ![h] = Untitled] /\ UNCHANGED <<talk, chosen, retitled>>
    /\ UNCHANGED <<message, sender, clock, deleted, heard, crossed>>

\* update_chat, of a title.
UpdateChat(h) ==
    /\ chat[h] # NULL
    /\ Choose(h)
    /\ UNCHANGED <<message, sender, clock, deleted, heard, crossed>>

\* A question that send_message has inserted holds the row of its chat until the commit.
Deletable(h) == chat[h] # NULL /\ \A s \in Under(h) : sender[s].pc # "waiting"

DeleteChat_MessagesStay(h) ==
    /\ Deletable(h)
    /\ chat' = [chat EXCEPT ![h] = NULL]
    /\ deleted' = deleted \cup {h}
    /\ UNCHANGED <<message, sender, talk, clock, heard, crossed, chosen, retitled>>

\* delete_chat, its messages with it.
DeleteChat(h) ==
    /\ Deletable(h)
    /\ chat' = [chat EXCEPT ![h] = NULL]
    /\ message' = {m \in message : m.chat # h}
    /\ deleted' = deleted \cup {h}
    /\ UNCHANGED <<sender, talk, clock, heard, crossed, chosen, retitled>>

-----------------------------------------------------------------------------
(* A message and its answer.                                               *)

History_QuestionsOnly(h) == {m \in message : m.chat = h /\ m.role = "user"}

\* list_messages, what the model is given before the question.
History(h) == {m \in message : m.chat = h}

\* The reads of send_message and stream_message: the chat, its history, no question in it.
Read(s, pc) ==
    /\ sender[s] = IdleSender
    /\ talk < MaxTalk
    /\ talk' = talk + 1
    /\ clock' = clock + 1
    /\ \E h \in ChatIds :
          /\ chat[h] # NULL
          /\ sender' = [sender EXCEPT ![s] =
                [pc |-> pc, n |-> talk + 1, chat |-> h, title |-> chat[h],
                 first |-> \A m \in History(h) : m.role # "user", at |-> clock + 1]]
          /\ heard' = [heard EXCEPT ![talk + 1] = History(h)]
          /\ crossed' = IF Under(h) = {} THEN crossed
                        ELSE crossed \cup {talk + 1} \cup {sender[q].n : q \in Under(h)}
    /\ UNCHANGED <<chat, message, deleted, chosen, retitled>>

BeginSend(s) == Read(s, "sending")
BeginStream(s) == Read(s, "asking")

Row(s, role) == [chat |-> sender[s].chat, n |-> sender[s].n, role |-> role, at |-> sender[s].at]

Names_Always(s) == sender[s].first

\* Whether the request gives the chat its title: the first question of a chat it read untitled.
Names(s) == sender[s].first /\ sender[s].title = Untitled

\* The title by the model, or cut from the question when the model fails.
Titled(s) ==
    chat' = IF Names(s) THEN [chat EXCEPT ![sender[s].chat] = [by |-> "model", n |-> sender[s].n]]
            ELSE chat

\* The question of send_message is inserted by the read of the prompt; the foreign key refuses
\* that of a deleted chat.
InsertQuestion(s) ==
    /\ sender[s].pc = "sending"
    /\ IF chat[sender[s].chat] = NULL THEN Hang(s) ELSE sender' = [sender EXCEPT ![s].pc = "waiting"]
    /\ UNCHANGED <<chat, message, talk, clock, deleted, heard, crossed, chosen, retitled>>

\* send_message once it is answered: question, answer and title in one commit.
CommitSend(s) ==
    /\ sender[s].pc = "waiting"
    /\ Titled(s)
    /\ message' = message \cup {Row(s, "user"), Row(s, "assistant")}
    /\ Hang(s)
    /\ UNCHANGED <<talk, clock, deleted, heard, crossed, chosen, retitled>>

CommitQuestion_Deferred(s) ==
    /\ sender[s].pc = "asking"
    /\ clock' = clock + 1
    /\ sender' = [sender EXCEPT ![s].pc = "streaming", ![s].at = clock + 1]
    /\ UNCHANGED <<chat, message, talk, deleted, heard, crossed, chosen, retitled>>

\* stream_message stores the question; reading the prompt begins the next transaction.
CommitQuestion(s) ==
    /\ sender[s].pc = "asking"
    /\ IF chat[sender[s].chat] = NULL
       THEN Hang(s) /\ UNCHANGED <<message, clock>>
       ELSE /\ message' = message \cup {Row(s, "user")}
            /\ clock' = clock + 1
            /\ sender' = [sender EXCEPT ![s].pc = "streaming", ![s].at = clock + 1]
    /\ UNCHANGED <<chat, talk, deleted, heard, crossed, chosen, retitled>>

\* The end of the stream, whole or broken off: what was collected is stored; a failure to is
\* swallowed.
CommitAnswer(s) ==
    /\ sender[s].pc = "streaming"
    /\ IF chat[sender[s].chat] = NULL THEN UNCHANGED <<chat, message>>
       ELSE Titled(s) /\ message' = message \cup {Row(s, "assistant")}
    /\ Hang(s)
    /\ UNCHANGED <<talk, clock, deleted, heard, crossed, chosen, retitled>>

\* The model fails before the first chunk, the reader goes away or the process stops.
HangsUp(s) ==
    /\ sender[s].pc # "idle"
    /\ Hang(s)
    /\ UNCHANGED <<chat, message, talk, clock, deleted, heard, crossed, chosen, retitled>>

ChatsNext ==
    \/ \E h \in ChatIds : CreateChat(h) \/ UpdateChat(h) \/ DeleteChat(h)
    \/ \E s \in Senders : \/ BeginSend(s) \/ InsertQuestion(s) \/ CommitSend(s)
                          \/ BeginStream(s) \/ CommitQuestion(s) \/ CommitAnswer(s)
                          \/ HangsUp(s)

ChatsSpec == ChatsInit /\ [][ChatsNext]_chatVars

-----------------------------------------------------------------------------
(* Properties.                                                             *)

Asked(h, n) == \E m \in message : m.chat = h /\ m.n = n /\ m.role = "user"

\* A question the model is answering, or has answered, does not disappear when the answer
\* does (stream_message.py:57).
QuestionsStay ==
    /\ \A m \in message : Asked(m.chat, m.n)
    /\ \A s \in Senders : sender[s].pc = "streaming" /\ chat[sender[s].chat] # NULL
                            => Asked(sender[s].chat, sender[s].n)

\* What the model was given is what the chat lists before the question, unless another
\* request on the chat was under way (list_messages.py:18).
AnsweredInContext ==
    \A q \in message : q.role = "user" /\ q.n \notin crossed =>
        heard[q.n] = {m \in message : m.chat = q.chat /\ m.at < q.at}

\* A title the user has given is not replaced by the model's, unless it was given while a
\* request on the chat was under way (stream_message.py:98).
ChosenTitleStays ==
    \A h \in ChatIds : chat[h] # NULL /\ chosen[h] # 0 /\ h \notin retitled =>
        chat[h] = [by |-> "user", n |-> chosen[h]]

\* Questions stay, are answered with what was said before them, and leave the user's title alone,
\* unless requests on the chat overlapped (stream_message.py:57, list_messages.py:18).
ChatsAreInOrder == ChatsTypeOK /\ QuestionsStay /\ AnsweredInContext /\ ChosenTitleStays

=============================================================================
