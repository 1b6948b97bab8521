------------------------------ MODULE ChatTurn ------------------------------
(* One conversation with the agent: the turns that run in it, streamed or    *)
(* not, each over a chain of chat models that falls back within the turn;    *)
(* what the client sees meanwhile; and the rows a turn leaves behind: its    *)
(* two messages, the shortlist pool and the run log, until the user deletes  *)
(* the conversation.                                                         *)
EXTENDS Naturals, Sequences, SequencesExt

CONSTANTS Turns,     \* chat requests
          Backups,   \* the chain is 0 (the primary) .. Backups
          Laptops,
          Thinking,  \* a reply made of the model's thinking blocks only
          Nothing,   \* no search result to show; no deletion under way
          MaxSteps, MaxTokens   \* bounds: the tool calls of a turn, the chunks of a step

ChainAssumption == Backups \in Nat

VARIABLES turn,       \* what each request has done
          messages,   \* the conversation's messages, oldest first
          pool,       \* its shortlist rows: [by, laptop]
          logs,       \* its agent_run_logs rows
          live,       \* whether it exists
          laptops,    \* the laptop rows that exist
          deletion    \* DELETE /conversations/{id}

chatTurn == <<turn, messages, pool, logs, live, laptops, deletion>>

(* text: the tokens of the model call under way; bubble: those the client     *)
(* shows; old: the shortlist rows read before they are replaced.              *)
NewTurn(stream) ==
    [pc |-> "asked", stream |-> stream, position |-> 0, step |-> 0, text |-> <<>>,
     bubble |-> <<>>, answered |-> <<>>, results |-> Nothing, reply |-> Nothing, old |-> {}]
Idle == [pc |-> "idle"]
Ended(how) == [pc |-> how]     \* a turn that is over

ChatInit ==
    /\ turn = [t \in Turns |-> Idle]
    /\ messages = <<>> /\ pool = {} /\ logs = {} /\ live = TRUE
    /\ laptops = Laptops
    /\ deletion = Nothing

Become(t, now) == turn' = [turn EXCEPT ![t] = now]
RowsUnchanged == UNCHANGED <<messages, pool, logs, live, laptops, deletion>>

(* _setup_turn commits the user's message before the model is asked.          *)
SetUp(t, stream) ==
    /\ turn[t] = Idle /\ live
    /\ Become(t, NewTurn(stream))
    /\ messages' = Append(messages, [turn |-> t, role |-> "user"])
    /\ UNCHANGED <<pool, logs, live, laptops, deletion>>

-----------------------------------------------------------------------------
(* The models                                                                *)

(* A chunk that is text: a token of the model that speaks, shown at once by   *)
(* a stream.                                                                  *)
Speak(t) ==
    LET now == turn[t]  token == [step |-> now.step, by |-> now.position] IN
    /\ now.pc = "asked" /\ Len(now.text) < MaxTokens
    /\ Become(t, [now EXCEPT !.text = Append(@, token),
                             !.bubble = IF now.stream THEN Append(@, token) ELSE @])
    /\ RowsUnchanged

MaySwitchAlways(now) == TRUE        \* mutant: a stream that broke off falls back too

(* After the first chunk of a stream no failure is a reason to switch.        *)
MaySwitch(now) == ~now.stream \/ now.text = <<>>

(* 429, 5xx, transport error, timeout or deadline: the next model is asked,   *)
(* and after the last one the turn fails with the first error.                *)
Unavailable(t) ==
    LET now == turn[t] IN
    /\ now.pc = "asked" /\ MaySwitch(now)
    /\ Become(t, [now EXCEPT !.text = <<>>,
                             !.position = IF now.position < Backups THEN @ + 1 ELSE @,
                             !.pc = IF now.position < Backups THEN "asked" ELSE "failed"])
    /\ RowsUnchanged

(* Any other error, LLMStreamInterrupted included, ends the turn.             *)
Break(t) ==
    /\ turn[t].pc = "asked"
    /\ Become(t, [turn[t] EXCEPT !.pc = "failed"])
    /\ RowsUnchanged

(* turn_reset goes out only when the step had shown text.                     *)
ShownAfterTool(now) == IF now.text # <<>> THEN <<>> ELSE now.bubble

(* on_llm_end: the chain position that answered each step.                    *)
Credited(now) == Append(now.answered, now.position)

(* The step ended in tool calls; `found` is what the last search of the turn  *)
(* now says: its laptops, or Nothing when its confidence was low.             *)
CallTools(t, found) ==
    LET now == turn[t] IN
    /\ now.pc = "asked" /\ now.step < MaxSteps
    /\ found \in {now.results, Nothing} \cup (SUBSET laptops \ {{}})
    /\ Become(t, [now EXCEPT !.answered = Credited(now), !.step = @ + 1, !.text = <<>>,
                             !.bubble = ShownAfterTool(now),
                             !.results = found])
    /\ RowsUnchanged

Answer(t) ==
    LET now == turn[t] IN
    /\ now.pc = "asked"
    /\ Become(t, [now EXCEPT !.answered = Credited(now), !.pc = "answered",
                             !.reply = IF now.text # <<>> THEN now.text ELSE Thinking])
    /\ RowsUnchanged

-----------------------------------------------------------------------------
(* What the turn leaves behind                                               *)

(* _persist_assistant_turn: a conversation deleted meanwhile is left alone.   *)
ReadConversation(t) ==
    LET now == turn[t] IN
    /\ now.pc = "answered"
    /\ Become(t, IF live THEN [now EXCEPT !.pc = "saving", !.old = pool]
                 ELSE [now EXCEPT !.pc = "unsaved"])
    /\ RowsUnchanged

ReplaceRows(now) == pool \ now.old

(* The commit fails when a row it refers to is gone.                          *)
Save(t) ==
    LET now  == turn[t]
        mine == IF now.results = Nothing THEN {} ELSE [by : {t}, laptop : now.results]
    IN  /\ now.pc = "saving"
        /\ IF live /\ {r.laptop : r \in mine} \subseteq laptops
           THEN /\ messages' = Append(messages, [turn |-> t, role |-> "assistant"])
                /\ pool' = IF now.results = Nothing THEN pool ELSE ReplaceRows(now) \cup mine
                /\ Become(t, [now EXCEPT !.pc = "saved"])
           ELSE /\ Become(t, Ended("lost"))
                /\ UNCHANGED <<messages, pool>>
        /\ UNCHANGED <<logs, live, laptops, deletion>>

(* log_agent_run, after the response (before it when a plain turn failed): a  *)
(* log that cannot be written is dropped.                                     *)
Log(t) ==
    LET now == turn[t] IN
    /\ now.pc \in {"saved", "unsaved", "failed"}
    /\ logs' = IF ~live THEN logs
               ELSE logs \cup {[turn |-> t, error |-> now.pc = "failed",
                                fallback |-> \E i \in DOMAIN now.answered : now.answered[i] > 0]}
    /\ Become(t, Ended(IF now.pc = "failed" THEN "error" ELSE "done"))
    /\ UNCHANGED <<messages, pool, live, laptops, deletion>>

(* The client of a stream goes away: the generator is closed where it stands, *)
(* nothing more is saved or logged.                                           *)
Disconnect(t) ==
    /\ turn[t].pc \in {"asked", "answered", "saved", "unsaved", "failed"} /\ turn[t].stream
    /\ Become(t, Ended("left"))
    /\ RowsUnchanged

-----------------------------------------------------------------------------
(* delete_conversation: the children it knows of, then the row; refused by    *)
(* the database while another row still refers to it.                         *)
ReadChildren ==
    /\ live /\ deletion = Nothing
    /\ deletion' = [pc |-> "read", messages |-> Len(messages), pool |-> pool]
    /\ UNCHANGED <<turn, messages, pool, logs, live, laptops>>

Undisturbed == deletion.messages = Len(messages) /\ deletion.pool = pool
CommitDeletion ==
    /\ deletion # Nothing /\ deletion.pc = "read"
    /\ IF Undisturbed /\ logs = {}
       THEN /\ live' = FALSE /\ messages' = <<>> /\ pool' = {}
            /\ deletion' = [deletion EXCEPT !.pc = "deleted"]
       ELSE /\ deletion' = IF Undisturbed THEN [deletion EXCEPT !.pc = "refused"] ELSE Nothing
            /\ UNCHANGED <<live, messages, pool>>
    /\ UNCHANGED <<turn, logs, laptops>>

(* delete_laptop refuses while a shortlist refers to the laptop.              *)
DeleteLaptop(l) ==
    /\ l \in laptops /\ \A r \in pool : r.laptop # l
    /\ laptops' = laptops \ {l}
    /\ UNCHANGED <<turn, messages, pool, logs, live, deletion>>

ChatNext ==
    \/ \E t \in Turns :
          \/ Speak(t) \/ Unavailable(t) \/ Break(t) \/ Answer(t)
          \/ ReadConversation(t) \/ Save(t) \/ Log(t) \/ Disconnect(t)
          \/ \E stream \in BOOLEAN : SetUp(t, stream)
          \/ \E found \in {Nothing} \cup SUBSET laptops : CallTools(t, found)
    \/ ReadChildren \/ CommitDeletion
    \/ \E l \in Laptops : DeleteLaptop(l)

-----------------------------------------------------------------------------
(* Properties                                                                *)

(* What a stream showed is what was stored: the bubble at the end is the      *)
(* saved reply, or is empty and the reply is the thinking nobody was shown    *)
(* as text.                                                                   *)
ReplyIsWhatWasShown ==
    \A t \in Turns : turn[t].pc = "saved" /\ turn[t].stream =>
        \/ turn[t].bubble = turn[t].reply
        \/ turn[t].bubble = <<>> /\ turn[t].reply = Thinking

(* The children are deleted first, so the delete goes through when nothing    *)
(* was added meanwhile (the comment in delete_conversation).                  *)
DeletionGoesThrough == deletion = Nothing \/ deletion.pc # "refused"
=============================================================================
