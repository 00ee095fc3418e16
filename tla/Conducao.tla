-------------------------------- MODULE Conducao -------------------------------
(****************************************************************************)
(* The contract between the chatbot's worker and everybody else who writes a *)
(* chat, by phase (the entry flow before an attendant, the exit flow after). *)
(* An execution is created once, with the chat in the bot's hands.  It goes  *)
(* on only while the chat is, it ends for good, and the chat never comes     *)
(* back.  Whoever takes the chat ends the execution in the same transaction; *)
(* otherwise the chat is let go by the worker, who owes it once it has ended *)
(* the execution, and may die before paying.                                 *)
(****************************************************************************)

CONSTANT Conversas

VARIABLES
  estado,   \* the execution of each chat and phase
  detida,   \* the phases for which the bot holds each chat
  devida    \* the phase whose letting go the worker owes each chat, "ambas" after a
            \* step that found itself forbidden, or "nada"

vars == <<estado, detida, devida>>

Fases == {"entrada", "saida"}
Vivas == {"running", "suspended"}
Terminais == {"completed", "failed", "aborted"}

Init ==
  /\ devida = [c \in Conversas |-> "nada"]
  /\ estado \in [Conversas -> [Fases -> {"inexistente", "running"}]]
  /\ detida = [c \in Conversas |-> {f \in Fases : estado[c][f] = "running"}]

Criar(c, f) ==
  /\ estado[c][f] = "inexistente" /\ f \notin detida[c]
  /\ estado'[c][f] = "running" /\ f \in detida'[c]

\* The worker's step: it waits for the customer, or it has come to the end.
Suspender(c, f) ==
  /\ estado[c][f] \in Vivas /\ f \in detida[c] /\ devida[c] = "nada"
  /\ estado'[c][f] = "suspended" /\ f \in detida'[c]

Acabar(c, f) ==
  /\ estado[c][f] \in Vivas /\ f \in detida[c] /\ devida[c] = "nada"
  /\ estado'[c][f] \in {"completed", "failed"} /\ f \in detida'[c]
  /\ devida'[c] = f

\* Who ends it before its end also takes the chat, but for the worker itself, which
\* from then on owes it.
Abortar(c, f) ==
  /\ estado[c][f] \in Vivas /\ estado'[c][f] = "aborted"
  /\ f \in detida'[c] => f \in detida[c] /\ devida[c] = "nada" /\ devida'[c] = "ambas"

\* The chat is taken, or let go, after the end.
Soltar(c, f) ==
  /\ estado[c][f] \notin Vivas \/ devida[c] = "ambas"
  /\ f \in detida[c] /\ f \notin detida'[c]
  /\ estado'[c][f] = estado[c][f]

Ficar(c, f) == estado'[c][f] = estado[c][f] /\ (f \in detida'[c] <=> f \in detida[c])

\* The worker comes to owe something only for what has ended, be it by its own step or
\* by one that was cut short; it pays, or forgets.
Dever(c) ==
  \/ devida'[c] \in {devida[c], "nada"}
  \/ /\ devida[c] = "nada"
     /\ \/ devida'[c] \in Fases /\ estado'[c][devida'[c]] \in Terminais
        \/ devida'[c] = "ambas" /\ \A f \in Fases : estado'[c][f] \notin Vivas

\* A transaction may write several chats, and both phases of one.
Next ==
  \A c \in Conversas :
    /\ Dever(c)
    /\ \A f \in Fases :
         \/ Criar(c, f) \/ Suspender(c, f) \/ Acabar(c, f) \/ Abortar(c, f) \/ Soltar(c, f)
         \/ Ficar(c, f)

Spec == Init /\ [][Next]_vars

================================================================================
