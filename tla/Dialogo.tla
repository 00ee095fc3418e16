-------------------------------- MODULE Dialogo --------------------------------
(****************************************************************************)
(* What a chatbot flow promises the customer, whatever the queue repeats,    *)
(* delays or loses and whoever crashes: its questions come one after the     *)
(* other, each is left once and by the branch that the customer's answer or  *)
(* silence chose, what is sent is about the question that is open, once, and *)
(* a flow that was taken from the bot says no more, but for the message that *)
(* was already on its way.                                                   *)
(****************************************************************************)
EXTENDS Naturals

CONSTANT MaxEsperas  \* questions the flow may ask

VARIABLES
  situacao,    \* under way, or how it ended
  pergunta,    \* the open question (0: none yet)
  respondida,  \* the open question has its answer
  ramo,        \* the branch by which each question was left
  saindo,      \* the question of the message on its way, if there is one
  enviadas     \* messages sent, by question (0: the final message)

vars == <<situacao, pergunta, respondida, ramo, saindo, enviadas>>

Init ==
  /\ situacao = "emCurso" /\ pergunta = 0 /\ respondida = FALSE
  /\ ramo = [t \in 1 .. MaxEsperas |-> "aberta"]
  /\ saindo = {}
  /\ enviadas = [t \in 0 .. MaxEsperas |-> 0]

\* An answer takes the reply branch and only its absence the other.
Deixa ==
  ramo' = IF pergunta = 0 THEN ramo
          ELSE [ramo EXCEPT ![pergunta] = IF respondida THEN "resume" ELSE "timeout"]

\* A question is asked, and the flow comes to its end, with no message on its way.
Perguntar ==
  /\ situacao = "emCurso" /\ pergunta < MaxEsperas /\ saindo = {}
  /\ Deixa
  /\ pergunta' = pergunta + 1 /\ respondida' = FALSE
  /\ UNCHANGED <<situacao, saindo, enviadas>>

Acabar ==
  /\ situacao = "emCurso" /\ saindo = {}
  /\ situacao' \in {"completed", "failed"}
  /\ Deixa
  /\ respondida' = FALSE
  /\ UNCHANGED <<pergunta, saindo, enviadas>>

Responder ==
  /\ situacao = "emCurso" /\ pergunta # 0
  /\ ~respondida /\ respondida' = TRUE
  /\ UNCHANGED <<situacao, pergunta, ramo, saindo, enviadas>>

\* The chat is taken from the bot.
Interromper ==
  /\ situacao = "emCurso" /\ situacao' = "aborted"
  /\ respondida' = FALSE
  /\ UNCHANGED <<pergunta, ramo, saindo, enviadas>>

\* The message of the open question, or the final one.
Preparar(t) ==
  /\ \/ situacao = "emCurso" /\ pergunta # 0 /\ t = pergunta
     \/ situacao = "completed" /\ t = 0
  /\ saindo = {} /\ enviadas[t] = 0
  /\ saindo' = {t}
  /\ UNCHANGED <<situacao, pergunta, respondida, ramo, enviadas>>

Mandar(t) ==
  /\ t \in saindo /\ saindo' = {}
  /\ enviadas' = [enviadas EXCEPT ![t] = @ + 1]
  /\ UNCHANGED <<situacao, pergunta, respondida, ramo>>

\* It did not go out.
Perder ==
  /\ saindo # {} /\ saindo' = {}
  /\ UNCHANGED <<situacao, pergunta, respondida, ramo, enviadas>>

Next ==
  \/ Perguntar \/ Acabar \/ Responder \/ Interromper \/ Perder
  \/ \E t \in 0 .. MaxEsperas : Preparar(t) \/ Mandar(t)

Spec == Init /\ [][Next]_vars

================================================================================
