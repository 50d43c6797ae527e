----------------------------- MODULE FileTransfer -----------------------------
(***************************************************************************)
(* What a transfer of a file gives (DM_COM_HttpClientInterface.c): a fault *)
(* code from the kind of the URL and from a reply, the result of           *)
(* curl_easy_perform, the last response code (0 when there is none) and    *)
(* whether the local file can be opened.                                   *)
(***************************************************************************)
EXTENDS Integers

Reply(curl, code, local) == [curl |-> curl, code |-> code, local |-> local]

CURLE_OK == 0
CURLE_COULDNT_CONNECT == 7
CURLE_REMOTE_ACCESS_DENIED == 9
CURLE_SSL_CACERT == 60
CURLE_LOGIN_DENIED == 67

DM_ERR == 1
HTTP_OK == 200
HTTP_CREATED == 201
HTTP_ACCEPTED == 202
HTTP_TRANSFER_COMPLETE == 226
HTTP_UNAUTHORIZED == 401
HTTP_FORBIDDEN == 403

REQUEST_DENIED == 9001
DOWNLOAD_FAILURE == 9010
UPLOAD_FAILURE == 9011
AUTHENTICATION_FAILURE == 9012
UNSUPPORTED_PROTOCOL == 9013

_isValidUrl(url) == url \in {"http", "ftp"}

_getFirmwareUpgradeErrorCodeFromHttpCode(rc) ==
  CASE rc \in {HTTP_OK, HTTP_TRANSFER_COMPLETE} -> 0
    [] rc = HTTP_UNAUTHORIZED -> AUTHENTICATION_FAILURE
    [] rc = HTTP_FORBIDDEN -> REQUEST_DENIED
    [] OTHER -> DOWNLOAD_FAILURE

\* A result of curl, or the code the server answered.
_curlGetHttpFile(url, reply) ==
  IF ~_isValidUrl(url) THEN UNSUPPORTED_PROTOCOL
  ELSE _getFirmwareUpgradeErrorCodeFromHttpCode(
         IF ~reply.local THEN DM_ERR
         ELSE IF reply.curl = CURLE_LOGIN_DENIED THEN HTTP_UNAUTHORIZED
         ELSE IF reply.curl # CURLE_OK THEN reply.curl
         ELSE reply.code)

_getUploadErrorCodeFromHttpCode(rc) ==
  CASE rc = CURLE_OK -> 0
    [] rc = CURLE_SSL_CACERT -> AUTHENTICATION_FAILURE
    [] OTHER -> UPLOAD_FAILURE

\* The code of the server alone decides, whatever curl_easy_perform said.
Uploaded(code) ==
  CASE code \in {HTTP_OK, HTTP_CREATED, HTTP_ACCEPTED, HTTP_TRANSFER_COMPLETE} -> CURLE_OK
    [] code = HTTP_UNAUTHORIZED -> CURLE_REMOTE_ACCESS_DENIED
    [] OTHER -> CURLE_COULDNT_CONNECT

_curlPutHttpFile(url, reply) ==
  IF ~_isValidUrl(url) THEN UNSUPPORTED_PROTOCOL
  ELSE IF ~reply.local THEN UPLOAD_FAILURE
  ELSE _getUploadErrorCodeFromHttpCode(Uploaded(reply.code))

_curlPutFtpFile(url, reply) ==
  IF ~_isValidUrl(url) THEN UNSUPPORTED_PROTOCOL
  ELSE IF ~reply.local THEN UPLOAD_FAILURE
  ELSE _getUploadErrorCodeFromHttpCode(Uploaded(reply.code))

\* _uploadThread
PutFile(url, reply) ==
  CASE url = "http" -> _curlPutHttpFile(url, reply)
    [] url = "ftp" -> _curlPutFtpFile(url, reply)
    [] OTHER -> UNSUPPORTED_PROTOCOL

\* What the thread of a transfer tells.
TransferResult(download, url, reply) == IF download THEN _curlGetHttpFile(url, reply) ELSE PutFile(url, reply)
=============================================================================
