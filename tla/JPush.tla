------------------------------- MODULE JPush --------------------------------
(***************************************************************************)
(* The notifications posted to the push service (JPush.cpp) through a curl *)
(* handle (curlWrapper.cpp).  A JSON object is a function of its names,    *)
(* and an array of strings the set of them.                                *)
(***************************************************************************)
CONSTANT
  HasJPush   \* the configuration has an element JPush

ASSUME HasJPushBoolean == HasJPush \in BOOLEAN

(* Cplatform::toJson.                                                      *)
Platform(type) == type

(* Caudience::toJson: everybody, or a list under the name of its type.  The*)
(* string "all" is an object with nothing under that name.                 *)
AudienceNames ==
  [TAG |-> "tag", TAG_AND |-> "tab_and", ALIAS |-> "alias", SEGMENT |-> "segment",
   REGISTRATION_ID |-> "registration_id"]

Audience(type, values) ==
  IF type = "ALL" THEN [all |-> {}] ELSE [name \in {AudienceNames[type]} |-> values]

(* Cnotification::toJson.                                                  *)
Notification(alert, title, build_id) ==
  [alert |-> alert, ios |-> [badge |-> <<"+", build_id>>],
   android |-> [title |-> title, build_id |-> build_id]]

(* Coptions::toJson.                                                       *)
Options(isProduction) == [apns_production |-> IF isProduction THEN "True" ELSE "False"]

(* push_SpecifiedIDs: every part under its name.                           *)
push_SpecifiedIDs(alert, title, build_id, ids) ==
  [options |-> Options(TRUE), notification |-> Notification(alert, title, build_id),
   audience |-> Audience("REGISTRATION_ID", ids), platform |-> Platform("all")]

(* configHandleForJPush: the address and the credentials are only set if   *)
(* they are configured.  The list of headers stays empty, because what     *)
(* curl_slist_append returns is not kept.                                  *)
Handle ==
  [url |-> IF HasJPush THEN "https://api.jpush.cn/v3/push" ELSE "",
   headers |-> {}]

(* perform: curl refuses a handle without an address, and any post may     *)
(* fail.                                                                   *)
Outcomes == {FALSE} \cup {x \in {TRUE} : Handle.url # ""}

(* Whose telephone rings, of those known to the push service.              *)
Recipients(payload, known) ==
  LET audience == payload.audience IN
  IF "all" \in DOMAIN audience THEN known
  ELSE IF "registration_id" \in DOMAIN audience THEN audience.registration_id \cap known
  ELSE {}
=============================================================================
