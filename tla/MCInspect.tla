----------------------------- MODULE MCInspect -----------------------------
(* Ten scenes of one to four messages, for TLC.                            *)
EXTENDS Inspect

NoTier == [max |-> 0, loss |-> 0, captchaAt |-> 0, banAt |-> 0]
Tier(captchaAt, banAt) == [max |-> 10, loss |-> 50, captchaAt |-> captchaAt, banAt |-> banAt]

Plain == [name |-> "p", mode |-> "enforce", own |-> {"/captcha"}, when |-> "always",
          pages |-> << >>, prior |-> << >>, tiers |-> [k \in Kinds |-> NoTier],
          rules |-> << >>, bind |-> {}, list |-> "", grace |-> 0,
          redirects |-> {"GET"}, htmlOnly |-> TRUE, inline |-> FALSE]

NoRule == [on |-> "uncleared", at |-> None, bucket |-> "", next |-> "", do |-> "", list |-> "",
           charge |-> "", write |-> "", ttl |-> 0, percent |-> 0, to |-> "", apply |-> "",
           phase |-> "", delta |-> None, value |-> None, counter |-> "", group |-> "",
           set |-> "", marker |-> "", when |-> {}, objects |-> FALSE]
ListRule(on, write) == [NoRule EXCEPT !.on = on, !.list = "bad", !.write = write, !.ttl = 1]

Client == [ip |-> "k", net |-> "n", method |-> "GET", uri |-> "/"]
Browser == [NoHeaders EXCEPT !.ua = "u", !.dest = "document"]
Cleared == [sealed |-> TRUE, expiry |-> 3, issued |-> 0, net |-> "n", ua |-> "u",
            fp |-> "f", jti |-> "k"]
With(c) == [Browser EXCEPT !.clearance = c]

Message(p, h) == [wrong |-> "", reply |-> TRUE, subject |-> "", profile |-> p,
                  store |-> "redis", headers |-> h, q |-> Client, prior |-> << >>]
Wrong(why) == [Message(None, NoHeaders) EXCEPT !.wrong = why]
Says(do, apply, value) == <<[from |-> "waf", phase |-> "request", actions |->
                              <<[do |-> do, apply |-> apply, code |-> "", value |-> value]>>]>>
Trusts(accept) == <<[from |-> "waf", accept |-> accept, codes |-> {}]>>

\* A clearance and one whose browser is another one, on a page of its own.
Gate == [Plain EXCEPT !.bind = {"subnet", "ua"}, !.list = "active", !.grace = 1,
                      !.when = "never",
                      !.pages = <<[methods |-> {"GET"}, uris |-> {"/"}, when |-> "always"]>>]
AtTheGate == <<Message(Gate, With(Cleared))>>
Foreign == <<Message(Gate, With([Cleared EXCEPT !.ua = "v"]))>>

\* Notes of another inspector fill the buckets that both requests share; the
\* network is found or not, and may be another one when it is asked for again.
Counting == [Plain EXCEPT !.when = "buckets", !.prior = Trusts({"note", "challenge"}),
                          !.tiers["ip"] = Tier(60, 90), !.tiers["sess"] = Tier(50, 0)]
Networked == [Counting EXCEPT !.tiers["asn_net"] = Tier(60, 0), !.tiers["ip"] = NoTier,
                              !.rules = <<[NoRule EXCEPT !.charge = "asn_net", !.percent = 60]>>]
Noted == <<Message(Counting, With(Cleared)),
           [Message(Counting, Browser) EXCEPT !.prior = Says("note", "ip", 60)]>>
Routed == <<Message(Networked, Browser),
            [Message(Networked, Browser) EXCEPT !.prior = Says("note", "asn", 60)]>>

\* Rules of every round.
Ruled == [Counting EXCEPT
            !.rules = <<ListRule("bucket_captcha", ""), ListRule("uncleared", "asn"),
                        ListRule("uncleared", ""), ListRule("cleared", "cid"),
                        [NoRule EXCEPT !.charge = "ip", !.percent = 60],
                        [NoRule EXCEPT !.on = "overload", !.at = 50, !.do = "active", !.to = "waf"],
                        [NoRule EXCEPT !.on = "overload", !.charge = "ip", !.percent = 60],
                        ListRule("overload", "addr")>>]
Overrun == <<Message(None, NoHeaders), Message(Ruled, Browser)>>
Firing == <<Message(Ruled, Browser), Message(Ruled, With(Cleared))>>

\* Profiles that let pass, widgets that do not, headers that are gone.
Inline == [Plain EXCEPT !.inline = TRUE, !.prior = Trusts({"*"})]
Watching == [Plain EXCEPT !.mode = "observe", !.own = {}, !.name = "o"]
Trusted == <<[Message(Inline, Browser) EXCEPT !.prior = Says("skip", "ip", 0)],
             Message(Inline, Browser)>>
Mixed == <<Message(Inline, Browser),
           [Message(Watching, Browser) EXCEPT !.store = "unavailable"]>>

\* Records of two subjects, and messages the callback answers itself.
Off == [Message([Plain EXCEPT !.mode = "off"], NoHeaders) EXCEPT !.subject = "a"]
Late == [Off EXCEPT !.wrong = "PHASE_NOT_SUPPORTED"]
Recorded == <<Late, [Late EXCEPT !.subject = "b"], Late, [Off EXCEPT !.profile = None]>>
Refused == <<Off, [Off EXCEPT !.reply = FALSE], Wrong("MALFORMED")>>

Trust == [revoked |-> {}, listed |-> {"k"}, ready |-> TRUE]
Revoking == {Trust, [Trust EXCEPT !.revoked = {"f"}]}
Listing == {[Trust EXCEPT !.listed = {}], [Trust EXCEPT !.listed = {}, !.ready = FALSE]}

Networks == {[NoGeo EXCEPT !.asn_net = "k"], [NoGeo EXCEPT !.asn_net = "j"], NoGeo}

\* A queue with room for all, or for one only.
Scene(msg, worlds, horizon) ==
  [msg |-> msg, depth |-> 2, full |-> "wait", geo |-> {NoGeo}, worlds |-> worlds,
   horizon |-> horizon, stops |-> FALSE]
Narrow(msg, full) == [Scene(msg, {Trust}, 0) EXCEPT !.depth = 1, !.full = full]
Stopped(s) == [s EXCEPT !.stops = TRUE]

MCScenes == {Scene(AtTheGate, Revoking \cup Listing, 2), Scene(Foreign, {Trust}, 2),
             Scene(Noted, Revoking, 1), [Scene(Routed, {Trust}, 0) EXCEPT !.geo = Networks],
             Narrow(Firing, "wait"), Narrow(Overrun, "drop"), Scene(Trusted, {Trust}, 0),
             Scene(Mixed, {Trust}, 0), Narrow(Recorded, "drop"),
             Stopped(Narrow(Refused, "wait"))}
=============================================================================
