----------------------------- MODULE MCAutomacao ----------------------------
\* What acts on a chat by itself: the chatbot worker, with both flows published, against
\* one attendant, an administrator who flips two switches, and crashes; or the scan for
\* inactive chats against its people and the clock.  Neither moves while the other does.
EXTENDS Atendimento, Inatividade, TLC

CONSTANTS ana, vendas, suporte, r1, r2, c1

VARIABLE parte

MCConversas == {c1}
MCAtendentes == {ana}
MCMasters == {}
MCSetores == {vendas, suporte}
MCSetoresDe == ana :> MCSetores
MCVeOutros == {}
MCRequisicoes == {r1, r2}
MCChaves == {"modulo", "contato"}

MCInit == parte \in {"chatbot", "inatividade"} /\ Init /\ InitInatividade
MCNext ==
    /\ UNCHANGED parte
    /\ \/ parte = "chatbot" /\ Next /\ UNCHANGED varsInatividade
       \/ parte = "inatividade" /\ NextInatividade /\ UNCHANGED vars
MCSpec == MCInit /\ [][MCNext]_<<parte, vars, varsInatividade>>

Simetria == Permutations(MCRequisicoes) \cup Permutations(Passadas)
=============================================================================
