------------------------------ MODULE CicloDeVida ------------------------------
(****************************************************************************)
(* What a support chat promises, whoever writes the row: the phases a       *)
(* protocol goes through, who owns it in each, how it may end.  A chat      *)
(* enters the bot only when it is opened, comes back from an attendant only *)
(* to the human queue, and ends once.  After it has ended, the protocol     *)
(* may stay reserved for the exit flow, and is set free once.               *)
(****************************************************************************)
CONSTANTS Conversas, Atendentes, Ninguem

VARIABLES
  estado,    \* the phase of each protocol
  dono,      \* its attendant
  desfecho   \* how it ended

vars == <<estado, dono, desfecho>>

Abertos == {"naFila", "comBot"}
Estados == {"inexistente", "emAtendimento", "reservada", "encerrada"} \cup Abertos
Humanos == {"FINALIZADO", "FINALIZADO_POR_INATIVIDADE"}
Outros == {"FINALIZADO_SEM_RESPOSTA", "FINALIZADO_PELO_CHATBOT"}

\* Only these may be followed by an exit flow.
ComSaida == {"FINALIZADO", "FINALIZADO_PELO_CHATBOT"}

Init ==
  /\ estado = [c \in Conversas |-> "inexistente"]
  /\ dono = [c \in Conversas |-> Ninguem]
  /\ desfecho = [c \in Conversas |-> "nenhum"]

Passa(c, para, u) ==
  /\ estado' = [estado EXCEPT ![c] = para]
  /\ dono' = [dono EXCEPT ![c] = u]
  /\ desfecho' = desfecho

Abrir(c) ==
  /\ estado[c] = "inexistente"
  /\ \/ \E para \in Abertos : Passa(c, para, Ninguem)
     \/ \E u \in Atendentes : Passa(c, "emAtendimento", u)

Assumir(c) ==
  /\ estado[c] \in Abertos
  /\ \E u \in Atendentes : Passa(c, "emAtendimento", u)

VoltarAFila(c) ==
  /\ estado[c] \in {"comBot", "emAtendimento"}
  /\ Passa(c, "naFila", Ninguem)

Transferir(c) ==
  /\ estado[c] = "emAtendimento"
  /\ \E u \in Atendentes \ {dono[c]} : Passa(c, "emAtendimento", u)

\* Attendance ends by its owner or by inactivity; a chat nobody has taken is
\* discarded, or closed by the bot.  The last owner stays on record.
Encerrar(c) ==
  /\ \E como \in Humanos \cup Outros, para \in {"reservada", "encerrada"} :
       /\ estado[c] \in IF como \in Humanos THEN {"emAtendimento"} ELSE Abertos
       /\ para = "reservada" => como \in ComSaida
       /\ estado' = [estado EXCEPT ![c] = para]
       /\ desfecho' = [desfecho EXCEPT ![c] = como]
  /\ dono' = dono

Liberar(c) ==
  /\ estado[c] = "reservada"
  /\ estado' = [estado EXCEPT ![c] = "encerrada"]
  /\ UNCHANGED <<dono, desfecho>>

\* Turning the automation off gives everything the bot holds back at once.
DesligarAutomacao ==
  /\ estado' = [c \in Conversas |-> CASE estado[c] = "comBot" -> "naFila"
                                      [] estado[c] = "reservada" -> "encerrada"
                                      [] OTHER -> estado[c]]
  /\ UNCHANGED <<dono, desfecho>>

Next ==
  \/ \E c \in Conversas :
       \/ Abrir(c) \/ Assumir(c) \/ VoltarAFila(c) \/ Transferir(c)
       \/ Encerrar(c) \/ Liberar(c)
  \/ DesligarAutomacao

Spec == Init /\ [][Next]_vars

================================================================================
