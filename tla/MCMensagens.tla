----------------------------- MODULE MCMensagens ------------------------------
(* A message sent from the portal with its echo, an ack, an edit and a        *)
(* revocation; or one of the customer with its echo, an edit and the reactions *)
(* of two people, one of them undone.                                          *)
EXTENDS Mensagens

CONSTANTS ana, bia

MCAutores == {ana, bia}
Relato(t, a, n, p) == [tipo |-> t, autor |-> a, numero |-> n, por |-> p]
MCRelatos ==
  [n \in BOOLEAN |->
     IF n THEN {Relato("eco", Nada, 0, FALSE), Relato("ack", Nada, 3, FALSE),
                Relato("edicao", Nada, 0, FALSE), Relato("revogacao", Nada, 0, FALSE)}
     ELSE {Relato("eco", Nada, 0, FALSE), Relato("edicao", Nada, 0, FALSE),
           Relato("reacao", ana, 0, TRUE), Relato("reacao", bia, 0, TRUE),
           Relato("reacao", bia, 0, FALSE)}]
=============================================================================
