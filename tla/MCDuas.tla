------------------------------ MODULE MCDuas --------------------------------
(* Two protocols of the same contact: an attendant opens or takes a chat while the *)
(* webhook opens another; the bot, the cron and the channel switch run as well.   *)
EXTENDS Atendimento

CONSTANTS ana, vendas, r1, c1, c2

MCConversas == {c1, c2}
MCAtendentes == {ana}
MCMasters == {}
MCSetores == {vendas}
MCSetoresDe == [u \in MCAtendentes |-> MCSetores]
MCVeOutros == {}
MCRequisicoes == {r1}
MCChaves == {"canal"}

=============================================================================
