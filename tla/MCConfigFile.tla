---------------------------- MODULE MCConfigFile ----------------------------
(* Route edits, a backup, an OpenID client, a token and the settings page. *)
EXTENDS ConfigFileProps

CONSTANTS route, alert, backup, client, token, settings

Kinds == [w \in Writer |-> CASE w \in {route, alert}   -> "local"
                            [] w = backup            -> "loose"
                            [] w \in {client, token} -> "domain"
                            [] w = settings          -> "settings"]

Sections == [w \in Writer |-> CASE w = token              -> "tokens"
                               [] w \in {client, settings} -> "openid"
                               [] OTHER                    -> "routes"]
=============================================================================
