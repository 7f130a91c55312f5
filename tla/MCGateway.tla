---------------------------- MODULE MCGateway ----------------------------
(* Instances of the gateway.                                               *)
EXTENDS Gateway

Address(f, c, h) == [forwarded |-> f, credential |-> c, remote |-> h]

Anonymous == Address(None, None, "h1")
Proxied == Address("f1", None, "h1")
Bearer == Address(None, Token, "h1")
MCClients == {Anonymous, Proxied, Bearer}

Form(f, s, t) == [format |-> f, source |-> s, target |-> t]

(* One workload moves the clock under a single key, two run handlers side  *)
(* by side, and one varies the settings.                                   *)
MCWorkloads ==
    {[kinds |-> {"health"}, forms |-> {Form("json", FALSE, FALSE)},
      clients |-> {Anonymous, Bearer}, until |-> 6, stored |-> {},
      settings |-> FALSE],
     [kinds |-> {"morph", "activate", "event"},
      forms |-> {Form("json", TRUE, TRUE), Form("protobuf", TRUE, TRUE)},
      clients |-> MCClients, until |-> 1, stored |-> Versions,
      settings |-> FALSE],
     [kinds |-> {"morph", "register", "activate", "event"}, forms |-> Forms,
      clients |-> {Anonymous, Proxied}, until |-> 1, stored |-> {},
      settings |-> FALSE],
     [kinds |-> {"register", "health"}, forms |-> {Form("json", FALSE, FALSE)},
      clients |-> MCClients, until |-> 1, stored |-> {}, settings |-> TRUE]}

Symmetry == Permutations(Requests) \cup Permutations(Versions)
=============================================================================
