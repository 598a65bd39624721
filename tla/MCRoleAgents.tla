---------------------------- MODULE MCRoleAgents ----------------------------
(* RoleAgents with payloads chosen to reach every branch of every handler, and
   syntheses nested up to four deep. *)
EXTENDS RoleAgents, TLC

CONSTANT operator

(* Forecasts: revenue, horizon *)
Numbers(q) == List([i \in DOMAIN q |-> Number(q[i])])
Forecast(fd, h) == Dict("financial_data" :> fd @@ "forecast_horizon" :> h)
Revenue(q) == Dict("revenue" :> Numbers(q))

Forecasts == {
    Dict(<<>>),
    Dict("forecast_horizon" :> Number(1)),
    Forecast(List(<<>>), Number(1)),
    Forecast(Dict(<<>>), Number(0)),
    Forecast(Dict(<<>>), Text("plain")),
    Forecast(Dict(<<>>), Number(2)),
    Forecast(Revenue(<<3, 4>>), Number(60)),
    Forecast(Revenue(<<3, 4>>), Number(61)),
    Forecast(Revenue(<<0, -4>>), Number(1)),
    Forecast(Revenue(<<2, -4>>), Number(1)),
    Forecast(Revenue(<<2, -4>>), Number(2)),
    Forecast(Revenue(<<-4, -2>>), Number(1)),
    Forecast(Revenue(<<1, 2000000>>), Number(60)),
    Forecast(Revenue(<<1, 2000000>>), Number(3)),
    Forecast(Dict("expenses" :> Numbers(<<1, 2000000>>)), Number(60)),
    Forecast(Dict("revenue" :> List(<<Text("plain")>>)), Number(1)),
    Forecast(Dict("revenue" :> List(<<Text("3"), Text("-4")>>)), Number(1)),
    Forecast(Dict("revenue" :> List(<<Number(2), Text("3")>>) @@ "expenses" :> Text("")), Number(1)),
    Forecast(Dict("expenses" :> Number(1)), Number(1)) }

(* Reviews *)
Review7(artifact) == Dict("mode" :> Text("charter_v7_review") @@ "peer_artifact" :> artifact)
Window(w) == Dict("mode" :> Text("compliance_review") @@ "time_window" :> w)

Clean == {Dict(<<>>), Dict("note" :> Text("plain")), Dict("note" :> List(<<Number(1), Text("plain")>>))}
Foul == {Dict("note" :> Text("drift")), Dict("note" :> List(<<Number(1), Text("drift")>>)),
         Dict("note" :> Dict("more" :> List(<<List(<<Text("drift")>>)>>)))}

Reviews == {Review7(a) : a \in Clean \cup Foul}
    \cup {Review7(Text("drift")), Dict("mode" :> Text("charter_v7_review")),
          Dict("mode" :> Text("plain")), Dict("mode" :> Text("compliance_review")),
          Window(Dict(<<>>)), Window(Text("plain"))}

(* Syntheses: the peers named, and per peer what its request is to carry *)
Ids(q) == List([i \in DOMAIN q |-> Text(q[i])])
Synthesis(q, payloads) ==
    Dict("request_summary" :> Text("plain") @@ "peer_roles_to_invoke" :> Ids(q)
         @@ "peer_payloads" :> payloads)
For(r, p) == Dict(r :> Dict("payload" :> p))

Good == Forecast(Revenue(<<3, 4>>), Number(2))
Huge == Forecast(Revenue(<<1, 2000000>>), Number(60))

Two == Synthesis(<<"cfo_agent", "compliance_agent">>,
                 Dict("cfo_agent" :> Dict("payload" :> Good)
                      @@ "compliance_agent" :> Dict("payload" :> Review7(Dict("note" :> Text("drift"))))))
Broken == Synthesis(<<"cfo_agent", "nobody">>, For("cfo_agent", Huge))
Household == Synthesis(<<"family_cfo_agent", "cfo_agent", "family_compliance_shield">>,
                       Dict("family_cfo_agent" :> Dict("payload" :> Good) @@ "cfo_agent" :> Dict("payload" :> Good)
                            @@ "family_compliance_shield" :> Dict("payload" :> Window(Dict(<<>>)))))
Nested == Synthesis(<<"household_synthesis_agent", "synthesis_agent">>,
                    Dict("household_synthesis_agent" :> Dict("payload" :> Household)
                         @@ "synthesis_agent" :> Dict("payload" :> Broken)))

Syntheses == {
    Two, Broken, Household, Nested,
    Synthesis(<<"synthesis_agent", "household_synthesis_agent">>,
              Dict("synthesis_agent" :> Dict("payload" :> Nested)
                   @@ "household_synthesis_agent" :> Dict("payload" :> Nested))),
    Synthesis(<<"synthesis_agent", "synthesis_agent">>, Dict(<<>>)),
    Synthesis(<<"household_synthesis_agent">>, Dict(<<>>)),
    Synthesis(<<>>, Dict(<<>>)),
    Synthesis(<<"cfo_agent">>, List(<<>>)),
    Synthesis(<<"nobody">>, List(<<>>)),
    Synthesis(<<"nobody", "family_cfo_agent">>, Dict("family_cfo_agent" :> Text("plain"))),
    Synthesis(<<"synthesis_agent">>, For("synthesis_agent", Synthesis(<<"cfo_agent">>, List(<<>>)))),
    Synthesis(<<"household_synthesis_agent", "family_cfo_agent">>,
              For("household_synthesis_agent", Text("plain"))),
    Synthesis(<<"compliance_agent", "synthesis_agent", "cfo_agent">>,
              Dict("compliance_agent" :> Dict("payload" :> Text("plain"))
                   @@ "synthesis_agent" :> Dict("payload" :> Number(1))
                   @@ "cfo_agent" :> Dict("payload" :> Number(1)))),
    Dict("request_summary" :> Text("blank") @@ "peer_roles_to_invoke" :> Ids(<<"cfo_agent">>)),
    Dict("request_summary" :> Text("") @@ "peer_roles_to_invoke" :> Ids(<<"cfo_agent">>)),
    Dict("request_summary" :> Text("plain") @@ "peer_roles_to_invoke" :> List(<<Number(1)>>)),
    Dict("request_summary" :> Text("plain") @@ "peer_roles_to_invoke" :> Text("cfo_agent")),
    Dict("request_summary" :> Text("plain") @@ "peer_roles_to_invoke" :> Ids(<<"cfo_agent">>)) }

MCPayloads == Forecasts \cup Reviews \cup Syntheses
MCValues ==
    LET level[n \in 0..20] ==
            IF n = 0 THEN MCPayloads ELSE UNION {Inside(d) : d \in level[n - 1]}
    IN UNION {level[n] : n \in 0..20}
MCDrifting == {"drift"}
MCNumerals == "3" :> 3 @@ "-4" :> -4
=============================================================================
