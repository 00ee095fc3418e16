------------------------------ MODULE MCEquipe ------------------------------
\* Two attendants, one of them a master, and the inactivity cron on one chat; or two
\* operators on the connection of its channel.  Neither moves while the other does.
EXTENDS Atendimento, Canal, TLC

CONSTANTS ana, bia, vendas, suporte, r1, r2, c1

VARIABLE parte

MCConversas == {c1}
MCAtendentes == {ana, bia}
MCMasters == {bia}
MCSetores == {vendas, suporte}
MCSetoresDe == (ana :> {vendas}) @@ (bia :> {})
MCVeOutros == {ana}
MCRequisicoes == {r1, r2}
MCChaves == {"contato"}

MCInit == parte \in {"equipe", "canal"} /\ Init /\ InitCanal
MCNext ==
    /\ UNCHANGED parte
    /\ \/ parte = "equipe" /\ Next /\ UNCHANGED varsCanal
       \/ parte = "canal" /\ NextCanal /\ UNCHANGED vars
MCSpec == MCInit /\ [][MCNext]_<<parte, vars, varsCanal>>

Simetria == Permutations(Operadores) \cup Permutations(Telefones)
=============================================================================
