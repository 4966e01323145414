--------------------------- MODULE OperationKinds ---------------------------
(***************************************************************************)
(* The operations that the server asks the manager for, and that it wants  *)
(* to be answered (landscape/client/manager).  A kind of operation is      *)
(*                                                                         *)
(*   steps      what is done, in order; the first that fails ends it       *)
(*   unguarded  steps whose failure is only logged                         *)
(*   collected  steps whose failure counts, but stops nothing              *)
(*   ignored    steps that may fail without anybody noticing               *)
(*   closing    what is done after the answer SUCCEEDED                    *)
(*   again      a failure of the answer SUCCEEDED, or in closing, is       *)
(*              answered with FAILED                                       *)
(*   anyway     closing happens even if the answer could not be sent       *)
(***************************************************************************)
EXTENDS Sequences

\* ManagerPlugin.call_with_operation_result
call_with_operation_result(steps) ==
    [steps |-> steps, unguarded |-> {}, collected |-> {}, ignored |-> {},
     closing |-> <<>>, again |-> FALSE, anyway |-> FALSE]

\* get_process_info, the comparison of the start time, os.kill
ProcessKiller == call_with_operation_result(<<"signal_process">>)

-----------------------------------------------------------------------------
(* Users and groups: UserManagement and, on Ubuntu Core, SnapdUserManage-  *)
(* ment, most methods of which do nothing                                  *)

add_user == <<"adduser", "chpasswd", "passwd -e">>
set_user_details == <<"get_uid", "chpasswd", "usermod -g", "chfn">>
lock_user == <<"get_uid", "usermod -L">>
unlock_user == <<"get_uid", "usermod -U">>
remove_user == <<"get_uid", "deluser">>
add_group == <<"addgroup">>
set_group_details == <<"get_gid", "groupmod">>
add_group_member == <<"get_uid", "get_gid", "gpasswd -a">>
remove_group_member == <<"get_uid", "get_gid", "gpasswd -d">>
remove_group == <<"get_gid", "groupdel">>
snapd_add_user == <<"add_assertion", "snapd add_user">>
snapd_remove_user == <<"snapd remove_user">>
snapd_nothing == <<>>

\* The user monitor looks for changes before and after the operation.
UserManager(command) ==
    [call_with_operation_result(<<"connect", "detect_changes">> \o command) EXCEPT
       !.unguarded = {"connect", "detect_changes"}, !.closing = <<"send_changes">>]

UserManagers ==
    {UserManager(c) : c \in
        {add_user, set_user_details, lock_user, unlock_user, remove_user, add_group,
         set_group_details, add_group_member, remove_group_member, remove_group,
         snapd_add_user, snapd_remove_user, snapd_nothing}}

-----------------------------------------------------------------------------
(* The others                                                              *)

\* The keys are written before call_with_operation_result, and what the
\* reporter ends with is not looked at.
AptSources ==
    [call_with_operation_result(<<"keys", "_handle_sources", "_run_reporter">>) EXCEPT
       !.unguarded = {"keys"}, !.ignored = {"_run_reporter"}]

\* Answered first.  _respond_fail wants two arguments and is given one.
Reboot == [call_with_operation_result(<<>>) EXCEPT !.closing = <<"_Reboot">>]
Shutdown == [Reboot EXCEPT !.closing = <<"_Shutdown">>, !.anyway = TRUE]

\* addCallback(_respond_success_...) and then addErrback(_respond_failure)
AttachPro ==
    [call_with_operation_result(<<"attach_pro", "get_ubuntu_pro_info">>) EXCEPT !.again = TRUE]
DetachPro == [call_with_operation_result(<<"detach_pro">>) EXCEPT !.again = TRUE]

\* One try around all of it
UsgAudit ==
    [call_with_operation_result(<<"_has_usg", "_save_attachment", "_spawn_usg">>) EXCEPT
       !.closing = <<"_send_audit_report">>, !.again = TRUE]
UsgFix == [UsgAudit EXCEPT !.closing = <<"_set_reboot_required">>]

\* A change of snapd that ended in an error is complete as well.
FDERecoveryKeyManager ==
    [call_with_operation_result(<<"_recovery_key_exists", "_generate_recovery_key",
                                  "update_recovery_key", "_poll_for_completion">>) EXCEPT
       !.ignored = {"_poll_for_completion"}, !.again = TRUE]

\* _handle_batch_snap_task and _handle_multiple_snap_tasks, _check_statuses;
\* _respond sends the snaps before it answers.
SnapManager ==
    [call_with_operation_result(<<"_start_snap_task", "_check_statuses",
                                  "_send_snap_update">>) EXCEPT
       !.collected = {"_start_snap_task", "_check_statuses"},
       !.unguarded = {"_send_snap_update"}]

\* _send_snap_update of SnapServicesManager has the same place.
SnapServicesManager == SnapManager

\* Nothing is done, and that is answered after a while.
FakePackageManager == call_with_operation_result(<<>>)

OtherKinds ==
    {ProcessKiller, AptSources, Reboot, Shutdown, AttachPro, DetachPro, UsgAudit, UsgFix,
     FDERecoveryKeyManager, SnapManager, SnapServicesManager, FakePackageManager}
=============================================================================
